---- MODULE Spec2Model ----
(***************************************************************************)
(* Vistora: the job orchestrator (vistora/services/job_manager.py), the    *)
(* credit ledger (vistora/services/credits.py) and the runners             *)
(* (vistora/services/runners.py) as one state machine.                     *)
(*                                                                         *)
(* Conventions.  Python None is the string NoneVal where a string is       *)
(* expected, 0 for the queue's sentinel and for "no thread", and the empty *)
(* tuple for an unset error or a missing view.  Progress is a fixed-point  *)
(* number in units of 1/10000 (0.05 is 500, 1.0 is 10000).  A job id is    *)
(* the job's position in the registry (uuid4 in the code: fresh, opaque).  *)
(* Timestamps and transaction ids are not part of the state.               *)
(***************************************************************************)
EXTENDS Integers, Sequences, FiniteSets, TLC

VARIABLES
    jobs,        \* JobManager._jobs: registry, in insertion order
    queue,       \* JobManager._queue: FIFO of job ids and the sentinel 0
    stop_event,  \* JobManager._stop_event
    worker,      \* JobManager._worker: thread slot, 0 for None
    threads,     \* the worker threads: position in _run_loop and locals
    ctl,         \* the lifecycle caller: "idle", or "joining" inside stop()
    balances,    \* CreditLedger._balances
    txns,        \* CreditLedger._txns
    store,       \* the ledger's file: <<>> while absent, else <<the saved payload>>
    invoked,     \* per job: how many times runner.run was entered
    ret,         \* what the step just taken returned, when it was a job API call
    calls,       \* how many state-changing calls the application has received
    observing,   \* whether the returns of the job API are recorded in ret
    disk         \* a JsonStore at the grain of its file operations: the target
                 \* file, the temporary file, the store's lock and its callers

vars == <<jobs, queue, stop_event, worker, threads, ctl, balances, txns, store, invoked, ret, calls, observing, disk>>

(***************************************************************************)
(* Bounds of the model.                                                    *)
(***************************************************************************)
\* create_job, cancel_job, topup and stop calls that change the state
MaxCalls == 3

NoneVal == "None"
Users == {"u1", "u2"}
JobIds == 1..MaxCalls
\* every stop() may leave one more thread behind
ThreadIds == 1..(MaxCalls + 1)

Max(a, b) == IF a >= b THEN a ELSE b
Min(a, b) == IF a <= b THEN a ELSE b

RECURSIVE SumAmounts(_)
SumAmounts(s) == IF s = <<>> THEN 0 ELSE Head(s).amount + SumAmounts(Tail(s))

(***************************************************************************)
(* vistora/services/pricing.py and model_catalog.py                        *)
(***************************************************************************)
QUALITY_MULTIPLIER(tier) ==
    CASE tier = "balanced" -> 1
      [] tier = "high" -> 2
      [] tier = "ultra" -> 4

CeilDiv(a, b) == (a + b - 1) \div b

\* an estimate that rounds the number of two-minute blocks down
estimate_credits_floor(duration_hint_seconds, quality_tier) ==
    LET duration == IF duration_hint_seconds # 0 /\ duration_hint_seconds > 0
                    THEN duration_hint_seconds ELSE 120
        base == Max(1, duration \div 120)
    IN base * QUALITY_MULTIPLIER(quality_tier)

\* pricing.py, lines 15-19 (a duration of None is 0 here: both are falsy)
estimate_credits(duration_hint_seconds, quality_tier) ==
    LET duration == IF duration_hint_seconds # 0 /\ duration_hint_seconds > 0
                    THEN duration_hint_seconds ELSE 120
        base == Max(1, CeilDiv(duration, 120))
    IN base * QUALITY_MULTIPLIER(quality_tier)

QUALITY_PRESETS ==
    << [tier |-> "balanced", detector_model |-> "yolo11x-seg-baseline",
        restorer_model |-> "basicvsrpp-v2-baseline", refiner_model |-> NoneVal],
       [tier |-> "high", detector_model |-> "rtdetrv2-l-candidate",
        restorer_model |-> "rvrt-base-candidate",
        refiner_model |-> "swinir-video-refiner-candidate"],
       [tier |-> "ultra", detector_model |-> "mask2former-swinl-candidate",
        restorer_model |-> "vrt-large-candidate",
        refiner_model |-> "diffusion-video-refiner-candidate"] >>

\* Python truthiness of an optional string: None and "" are falsy.
Truthy(s) == s # NoneVal /\ s # ""

\* a resolve_models whose fallback for an unknown tier is the first preset
resolve_models_first_preset(quality_tier, detector_model, restorer_model, refiner_model) ==
    LET found == {i \in 1..Len(QUALITY_PRESETS) : QUALITY_PRESETS[i].tier = quality_tier}
        preset == IF found = {} THEN QUALITY_PRESETS[1]
                  ELSE QUALITY_PRESETS[CHOOSE i \in found : \A k \in found : i <= k]
    IN [detector_model |-> IF Truthy(detector_model) THEN detector_model
                           ELSE preset.detector_model,
        restorer_model |-> IF Truthy(restorer_model) THEN restorer_model
                           ELSE preset.restorer_model,
        refiner_model |-> IF refiner_model # NoneVal THEN refiner_model
                          ELSE preset.refiner_model]

\* model_catalog.py, lines 125-137 (QUALITY_PRESETS[1] of the code is the
\* second preset here: sequences start at 1)
resolve_models(quality_tier, detector_model, restorer_model, refiner_model) ==
    LET found == {i \in 1..Len(QUALITY_PRESETS) : QUALITY_PRESETS[i].tier = quality_tier}
        preset == IF found = {} THEN QUALITY_PRESETS[2]
                  ELSE QUALITY_PRESETS[CHOOSE i \in found : \A k \in found : i <= k]
    IN [detector_model |-> IF Truthy(detector_model) THEN detector_model
                           ELSE preset.detector_model,
        restorer_model |-> IF Truthy(restorer_model) THEN restorer_model
                           ELSE preset.restorer_model,
        refiner_model |-> IF refiner_model # NoneVal THEN refiner_model
                          ELSE preset.refiner_model]

(***************************************************************************)
(* vistora/services/credits.py: CreditLedger                               *)
(***************************************************************************)
Txn(user_id, amount, kind, reason, ref_id) ==
    [user_id |-> user_id, amount |-> amount, kind |-> kind,
     reason |-> reason, ref_id |-> ref_id]

\* _append_txn: the log with the new transaction at its end
_append_txn(log, user_id, amount, kind, reason, ref_id) ==
    Append(log, Txn(user_id, amount, kind, reason, ref_id))

\* Each ledger operation maps the ledger state to
\* [ok, error, balances, txns, txn]: the outcome and the state after it.
LedgerFail(bal, log, error) ==
    [ok |-> FALSE, error |-> error, balances |-> bal, txns |-> log, txn |-> <<>>]

LedgerOk(bal, log) ==
    [ok |-> TRUE, error |-> <<>>, balances |-> bal, txns |-> log,
     txn |-> <<log[Len(log)]>>]

\* a topup that lets a zero amount through
topup_accepts_zero(bal, log, user_id, amount, reason) ==
    IF amount < 0 THEN LedgerFail(bal, log, <<"topup amount must be >= 1">>)
    ELSE LedgerOk([bal EXCEPT ![user_id] = bal[user_id] + amount],
                  _append_txn(log, user_id, amount, "topup", reason, 0))

topup(bal, log, user_id, amount, reason) ==
    IF amount < 1 THEN LedgerFail(bal, log, <<"topup amount must be >= 1">>)
    ELSE LedgerOk([bal EXCEPT ![user_id] = bal[user_id] + amount],
                  _append_txn(log, user_id, amount, "topup", reason, 0))

\* a reserve that debits before it checks, and raises with the debit made
reserve_debits_first(bal, log, user_id, amount, ref_id) ==
    IF amount < 1 THEN LedgerFail(bal, log, <<"reserve amount must be >= 1">>)
    ELSE IF bal[user_id] < amount
         THEN LedgerFail([bal EXCEPT ![user_id] = bal[user_id] - amount], log,
                         <<"insufficient credits", bal[user_id], amount>>)
         ELSE LedgerOk([bal EXCEPT ![user_id] = bal[user_id] - amount],
                       _append_txn(log, user_id, 0 - amount, "reserve", "job_reserve", ref_id))

\* a reserve whose balance check is off by one
reserve_lenient(bal, log, user_id, amount, ref_id) ==
    IF amount < 1 THEN LedgerFail(bal, log, <<"reserve amount must be >= 1">>)
    ELSE IF bal[user_id] < amount - 1
         THEN LedgerFail(bal, log, <<"insufficient credits", bal[user_id], amount>>)
         ELSE LedgerOk([bal EXCEPT ![user_id] = bal[user_id] - amount],
                       _append_txn(log, user_id, 0 - amount, "reserve", "job_reserve", ref_id))

\* a reserve that debits without looking at the balance
reserve_unchecked(bal, log, user_id, amount, ref_id) ==
    IF amount < 1 THEN LedgerFail(bal, log, <<"reserve amount must be >= 1">>)
    ELSE LedgerOk([bal EXCEPT ![user_id] = bal[user_id] - amount],
                  _append_txn(log, user_id, 0 - amount, "reserve", "job_reserve", ref_id))

\* a reserve that logs the amount without its sign
reserve_logs_unsigned(bal, log, user_id, amount, ref_id) ==
    IF amount < 1 THEN LedgerFail(bal, log, <<"reserve amount must be >= 1">>)
    ELSE IF bal[user_id] < amount
         THEN LedgerFail(bal, log, <<"insufficient credits", bal[user_id], amount>>)
         ELSE LedgerOk([bal EXCEPT ![user_id] = bal[user_id] - amount],
                       _append_txn(log, user_id, amount, "reserve", "job_reserve", ref_id))

reserve(bal, log, user_id, amount, ref_id) ==
    IF amount < 1 THEN LedgerFail(bal, log, <<"reserve amount must be >= 1">>)
    ELSE IF bal[user_id] < amount
         THEN LedgerFail(bal, log, <<"insufficient credits", bal[user_id], amount>>)
         ELSE LedgerOk([bal EXCEPT ![user_id] = bal[user_id] - amount],
                       _append_txn(log, user_id, 0 - amount, "reserve", "job_reserve", ref_id))

\* a refund that sets the balance to the amount instead of adding to it
refund_overwrites(bal, log, user_id, amount, ref_id) ==
    IF amount < 1 THEN LedgerFail(bal, log, <<"refund amount must be >= 1">>)
    ELSE LedgerOk([bal EXCEPT ![user_id] = amount],
                  _append_txn(log, user_id, amount, "refund", "job_refund", ref_id))

\* a refund that returns without effect when the log already holds a refund
\* with the same ref_id
refund_deduplicates(bal, log, user_id, amount, ref_id) ==
    IF amount < 1 THEN LedgerFail(bal, log, <<"refund amount must be >= 1">>)
    ELSE IF \E i \in 1..Len(log) : log[i].kind = "refund" /\ log[i].ref_id = ref_id
         THEN [ok |-> TRUE, error |-> <<>>, balances |-> bal, txns |-> log, txn |-> <<>>]
         ELSE LedgerOk([bal EXCEPT ![user_id] = bal[user_id] + amount],
                       _append_txn(log, user_id, amount, "refund", "job_refund", ref_id))

\* a refund that credits the balance and records nothing
refund_unlogged(bal, log, user_id, amount, ref_id) ==
    IF amount < 1 THEN LedgerFail(bal, log, <<"refund amount must be >= 1">>)
    ELSE [ok |-> TRUE, error |-> <<>>, txn |-> <<>>, txns |-> log,
          balances |-> [bal EXCEPT ![user_id] = bal[user_id] + amount]]

refund(bal, log, user_id, amount, ref_id) ==
    IF amount < 1 THEN LedgerFail(bal, log, <<"refund amount must be >= 1">>)
    ELSE LedgerOk([bal EXCEPT ![user_id] = bal[user_id] + amount],
                  _append_txn(log, user_id, amount, "refund", "job_refund", ref_id))

\* list_transactions: the log in insertion order; the filter applies only when
\* user_id is truthy (`if user_id and raw.get("user_id") != user_id`)
list_transactions(log, user_id) ==
    IF Truthy(user_id) THEN SelectSeq(log, LAMBDA raw : raw.user_id = user_id)
    ELSE log

\* a _persist that saves the balances and leaves the transactions out
_persist_balances_only(bal, log) == <<[balances |-> bal, transactions |-> <<>>]>>

\* _persist: the payload save_dict writes, replacing the file
_persist(bal, log) == <<[balances |-> bal, transactions |-> log]>>

\* CreditLedger.__init__, lines 14-16: the ledger constructed over a store.
\* load_dict gives {} for a missing file, so both fields take their defaults;
\* a balance that is not in the dict reads as 0 (get_balance, line 20).
CreditLedger(st, users) ==
    IF st = <<>> THEN [balances |-> [u \in users |-> 0], txns |-> <<>>]
    ELSE [balances |-> [u \in users |-> st[1].balances[u]], txns |-> st[1].transactions]

\* each operation persists right after its append, and not when it raises
Persisted(r, old) == IF r.ok THEN _persist(r.balances, r.txns) ELSE old

(***************************************************************************)
(* vistora/services/storage.py: JsonStore                                  *)
(* A file is absent or holds the chunks written to it so far.  json.dump   *)
(* writes a payload as several chunks; a file that holds only some of them *)
(* is a partial write.                                                     *)
(***************************************************************************)
NoFile == [exists |-> FALSE, data |-> <<>>]

File(data) == [exists |-> TRUE, data |-> data]

StorePayloads == {"p1", "p2"}

\* load_dict's result for a missing or undecodable file: {}
EmptyDict == "{}"

\* json.dump(payload, f, ...), line 30: the chunks written, in order
json_dump(payload) == <<"{", payload, "}">>

\* a chunk of bytes that are not valid UTF-8
BadBytes == "0xFF"

\* a JSON document that is not an object
JsonList == <<"[", "]">>

\* what a call on the store returned or raised
StoreResult(op, ok, value, error) == [op |-> op, ok |-> ok, value |-> value, error |-> error]

NoResult == StoreResult("none", TRUE, EmptyDict, <<>>)

\* load_dict, lines 14-23: the text is decoded as UTF-8 by the file object
\* inside json.load; UnicodeDecodeError is a ValueError that is neither an
\* OSError nor a JSONDecodeError, so line 22 does not catch it
load_dict(file) ==
    IF ~file.exists THEN StoreResult("load", TRUE, EmptyDict, <<>>)
    ELSE IF \E i \in 1..Len(file.data) : file.data[i] = BadBytes
    THEN StoreResult("load", FALSE, EmptyDict, <<"UnicodeDecodeError">>)
    ELSE IF \E p \in StorePayloads : file.data = json_dump(p)
    THEN StoreResult("load", TRUE, file.data[2], <<>>)
    ELSE StoreResult("load", TRUE, EmptyDict, <<>>)

StoreThreads == 1..2

StoreCaller(pc, payload, at, result) == [pc |-> pc, payload |-> payload, at |-> at, result |-> result]

IdleCaller == StoreCaller("idle", EmptyDict, 0, NoResult)

Disk(target, tmp, lock, th) == [target |-> target, tmp |-> tmp, lock |-> lock, th |-> th]

\* a store nobody is calling, its files absent
QuietDisk == Disk(NoFile, NoFile, 0, [t \in StoreThreads |-> IdleCaller])

(***************************************************************************)
(* vistora/core.py: JobCreateRequest; job_manager.py: ManagedJob           *)
(***************************************************************************)
Request(user_id, credits, hint, runner, tier, detector, restorer, refiner, output_path) ==
    [user_id |-> user_id, estimated_credits |-> credits,
     duration_hint_seconds |-> hint, runner |-> runner,
     quality_tier |-> tier, detector_model |-> detector,
     restorer_model |-> restorer, refiner_model |-> refiner,
     output_path |-> output_path]

\* The requests create_job is called with (0 is None for the optional integers).
JobRequests ==
    { Request("u1", 0, 0, "auto", "balanced", NoneVal, NoneVal, NoneVal, NoneVal),
      Request("u1", 2, 0, "lada-cli", "high", "my-detector", NoneVal, NoneVal, "out.mp4") }

\* ManagedJob(id, request): the dataclass defaults
ManagedJob(request) ==
    [request |-> request, status |-> "queued", stage |-> <<"queued">>, progress |-> 0,
     credits_reserved |-> 0, error |-> <<>>]

to_view(id, job) ==
    [id |-> id, user_id |-> job.request.user_id, status |-> job.status,
     stage |-> job.stage, progress |-> job.progress,
     credits_reserved |-> job.credits_reserved,
     quality_tier |-> job.request.quality_tier,
     detector_model |-> IF Truthy(job.request.detector_model)
                        THEN job.request.detector_model ELSE "unknown-detector",
     restorer_model |-> IF Truthy(job.request.restorer_model)
                        THEN job.request.restorer_model ELSE "unknown-restorer",
     refiner_model |-> job.request.refiner_model,
     output_path |-> job.request.output_path,
     error |-> job.error]

\* create_job, lines 73-87: the request with models and credits resolved
ResolveRequest(req) ==
    LET m == resolve_models(req.quality_tier, req.detector_model,
                            req.restorer_model, req.refiner_model)
        estimated_credits ==
            IF req.estimated_credits # 0 THEN req.estimated_credits
            ELSE estimate_credits(req.duration_hint_seconds, req.quality_tier)
    IN [req EXCEPT !.detector_model = m.detector_model,
                   !.restorer_model = m.restorer_model,
                   !.refiner_model = m.refiner_model,
                   !.estimated_credits = estimated_credits]

Known(reg, job_id) == job_id \in 1..Len(reg)

\* the field updates the worker makes under the registry lock
_set_reserved(reg, job_id, reserved) ==
    IF ~Known(reg, job_id) THEN reg
    ELSE [reg EXCEPT ![job_id].credits_reserved = reserved]

\* a _set_stage that stores the progress as the runner passed it
_set_stage_unclamped(reg, job_id, stage, progress) ==
    IF ~Known(reg, job_id) THEN reg
    ELSE [reg EXCEPT ![job_id].stage = stage, ![job_id].progress = progress]

\* _set_stage, lines 152-159
_set_stage(reg, job_id, stage, progress) ==
    IF ~Known(reg, job_id) THEN reg
    ELSE [reg EXCEPT ![job_id].stage = stage,
                     ![job_id].progress = Max(0, Min(10000, progress))]

SetDone(reg, job_id) ==
    IF ~Known(reg, job_id) THEN reg
    ELSE [reg EXCEPT ![job_id].status = "done", ![job_id].stage = <<"done">>,
                     ![job_id].progress = 10000]

\* an _on_failure that marks the job failed and drops the error text
SetFailedNoError(reg, job_id, error) ==
    IF ~Known(reg, job_id) THEN reg
    ELSE [reg EXCEPT ![job_id].status = "failed", ![job_id].stage = <<"failed">>]

SetFailed(reg, job_id, error) ==
    IF ~Known(reg, job_id) THEN reg
    ELSE [reg EXCEPT ![job_id].status = "failed", ![job_id].stage = <<"failed">>,
                     ![job_id].error = error]

SetRunning(reg, job_id) ==
    [reg EXCEPT ![job_id].status = "running", ![job_id].stage = <<"starting">>,
                ![job_id].progress = 100]

\* a cancel that also takes a running job
CancelUnlessTerminal(reg, job_id) ==
    IF reg[job_id].status \in {"queued", "running"}
    THEN [reg EXCEPT ![job_id].status = "canceled", ![job_id].stage = <<"canceled">>]
    ELSE reg

\* a cancel that leaves the stage as it was
CancelKeepsStage(reg, job_id) ==
    IF reg[job_id].status = "queued"
    THEN [reg EXCEPT ![job_id].status = "canceled"]
    ELSE reg

\* cancel_job, lines 110-113
CancelIfQueued(reg, job_id) ==
    IF reg[job_id].status = "queued"
    THEN [reg EXCEPT ![job_id].status = "canceled", ![job_id].stage = <<"canceled">>]
    ELSE reg

\* a dispatch that skips unknown ids only
SkipUnknownOnly(reg, job_id) == ~Known(reg, job_id)

\* a dispatch that skips every id it takes off the queue
SkipEverything(reg, job_id) == TRUE

\* _run_loop, line 127: the dequeued id is skipped
SkipDispatch(reg, job_id) == ~Known(reg, job_id) \/ reg[job_id].status = "canceled"

(***************************************************************************)
(* vistora/services/runners.py.  A line of the child's output is a tuple   *)
(* of one-character strings, without its newline.                          *)
(***************************************************************************)
Digits == <<"0", "1", "2", "3", "4", "5", "6", "7", "8", "9">>
IsDigit(c) == \E d \in 1..10 : Digits[d] = c
DigitVal(c) == (CHOOSE d \in 1..10 : Digits[d] = c) - 1
IsSpace(c) == c \in {" ", "\t", "\n", "\r"}

RECURSIVE NumVal(_)
NumVal(ds) == IF ds = <<>> THEN 0
              ELSE 10 * NumVal(SubSeq(ds, 1, Len(ds) - 1)) + DigitVal(ds[Len(ds)])

\* k digits at position i, then optional whitespace, then "%"
PctMatchAt(line, i, k) ==
    /\ i + k - 1 <= Len(line)
    /\ \A d \in i..(i + k - 1) : IsDigit(line[d])
    /\ \E j \in (i + k)..Len(line) :
          /\ line[j] = "%"
          /\ \A w \in (i + k)..(j - 1) : IsSpace(line[w])

\* re.search(r"(\d{1,3})\s*%", line): group 1 as an integer, -1 for no match.
\* The leftmost start wins, and at that start the longest run of digits.
MatchPct(line) ==
    LET starts == {i \in 1..Len(line) : \E k \in 1..3 : PctMatchAt(line, i, k)}
    IN IF starts = {} THEN -1
       ELSE LET i == CHOOSE a \in starts : \A b \in starts : a <= b
                k == CHOOSE a \in 1..3 : /\ PctMatchAt(line, i, a)
                                         /\ \A b \in 1..3 : PctMatchAt(line, i, b) => b <= a
            IN NumVal(SubSeq(line, i, i + k - 1))

\* a mapping of the percentage onto the whole range instead of the band
PctProgressWholeRange(pct) == 100 * Max(0, Min(100, pct))

\* line 103-104: the progress a parsed percentage maps to
PctProgress(pct) == 3000 + 65 * Max(0, Min(100, pct))

\* line 92 and 108: elapsed and max_expected in tenths of a second
MaxExpected(req) ==
    Max(80, 12 * (IF req.duration_hint_seconds # 0 THEN req.duration_hint_seconds ELSE 30))

Guessed(req, elapsed) == Min(9300, 3000 + (6000 * elapsed) \div MaxExpected(req))

RECURSIVE JoinLines(_)
JoinLines(ls) == IF ls = <<>> THEN <<>>
                 ELSE IF Len(ls) = 1 THEN ls[1]
                 ELSE ls[1] \o <<"\n">> \o JoinLines(Tail(ls))

RECURSIVE LStrip(_)
LStrip(s) == IF s # <<>> /\ IsSpace(s[1]) THEN LStrip(Tail(s)) ELSE s

RECURSIVE RStrip(_)
RStrip(s) == IF s # <<>> /\ IsSpace(s[Len(s)]) THEN RStrip(SubSeq(s, 1, Len(s) - 1)) ELSE s

RECURSIVE RStripNewline(_)
RStripNewline(s) ==
    IF s # <<>> /\ s[Len(s)] = "\n" THEN RStripNewline(SubSeq(s, 1, Len(s) - 1)) ELSE s

NonEmpty(ls) == SelectSeq(ls, LAMBDA l : l # <<>>)

\* an error that is the fixed message whatever was captured
LadaErrorFixed(logs) == <<"RuntimeError", <<"lada-cli execution failed">> >>

\* line 121: the message of the RuntimeError
LadaError(logs) ==
    LET text == RStrip(LStrip(JoinLines(NonEmpty(logs))))
    IN IF text # <<>> THEN <<"RuntimeError", text>>
       ELSE <<"RuntimeError", <<"lada-cli execution failed">> >>

\* a simulated runner whose last report is encoding at 0.96
DryRunStagesNoMux(req) ==
    << <<<<"probing">>, 500>>, <<<<"decoding">>, 1800>>,
       <<<<"detecting", req.detector_model>>, 4000>>,
       <<<<"restoring", req.restorer_model>>, 7800>> >>
    \o (IF Truthy(req.refiner_model)
        THEN << <<<<"refining", req.refiner_model>>, 9000>> >> ELSE <<>>)
    \o << <<<<"encoding">>, 9600>> >>

\* a simulated runner that reports refining whether or not there is a refiner
DryRunStagesAlwaysRefine(req) ==
    << <<<<"probing">>, 500>>, <<<<"decoding">>, 1800>>,
       <<<<"detecting", req.detector_model>>, 4000>>,
       <<<<"restoring", req.restorer_model>>, 7800>>,
       <<<<"refining", req.refiner_model>>, 9000>>,
       <<<<"encoding">>, 9600>>, <<<<"muxing">>, 10000>> >>

\* DryRunRunner.run, lines 33-46
DryRunStages(req) ==
    << <<<<"probing">>, 500>>, <<<<"decoding">>, 1800>>,
       <<<<"detecting", req.detector_model>>, 4000>>,
       <<<<"restoring", req.restorer_model>>, 7800>> >>
    \o (IF Truthy(req.refiner_model)
        THEN << <<<<"refining", req.refiner_model>>, 9000>> >> ELSE <<>>)
    \o << <<<<"encoding">>, 9600>>, <<<<"muxing">>, 10000>> >>

\* The child processes Popen may produce: whether the spawn succeeds, the
\* lines the child writes and its exit code.
Child(spawned, lines, code) == [spawned |-> spawned, lines |-> lines, code |-> code]

Children ==
    { Child(FALSE, <<>>, 0),
      Child(TRUE, << <<"5", "0", "%">> >>, 0),
      Child(TRUE, << <<"e">> >>, 1) }

\* elapsed wall time at a poll timeout, in tenths of a second
ElapsedInputs == {600}

\* A runner in progress: kind, position, and LadaCliRunner.run's locals.
Run(kind, at, dyn, out, logs, code) ==
    [kind |-> kind, at |-> at, dyn |-> dyn, out |-> out, logs |-> logs, code |-> code]

NoRun == Run("none", 0, 0, <<>>, <<>>, 0)

\* what build_runner returns (the runner's class) or raises
Built(runner) == [ok |-> TRUE, runner |-> runner, error |-> <<>>]

Unsupported == [ok |-> FALSE, runner |-> "none", error |-> <<"ValueError", "Unsupported runner">>]

\* a build_runner whose "auto" never looks the executable up
build_runner_no_lookup(name, which) ==
    CASE name = "auto" -> Built("lada-cli")
      [] name = "dry-run" -> Built("dry-run")
      [] name = "lada-cli" -> Built("lada-cli")
      [] OTHER -> Unsupported

\* build_runner, lines 127-134, with the result of shutil.which("lada-cli")
\* (None or the executable's path) as a second argument
build_runner_with(name, which) ==
    CASE name = "auto" -> IF Truthy(which) THEN Built("lada-cli") ELSE Built("dry-run")
      [] name = "dry-run" -> Built("dry-run")
      [] name = "lada-cli" -> Built("lada-cli")
      [] OTHER -> Unsupported

\* what shutil.which("lada-cli") may return on the machine the worker runs on
WhichOutcomes == {NoneVal, "/usr/local/bin/lada-cli"}

\* build_runner: the runners it may return, or none when it raises
build_runner(name) ==
    { b.runner : b \in { c \in { build_runner_with(name, w) : w \in WhichOutcomes } : c.ok } }

\* One step of a runner: the callbacks (cbs) it makes, its next state, and whether
\* run returns or raises.
Outcome(cbs, run, end, error) == [cbs |-> cbs, run |-> run, end |-> end, error |-> error]

DryRunStep(req, run) ==
    LET stages == DryRunStages(req)
        i == run.at + 1
    IN { Outcome(<<stages[i]>>, [run EXCEPT !.at = i],
                 IF i = Len(stages) THEN "return" ELSE "no", <<>>) }

\* LadaCliRunner.run, lines 95-122: one iteration of the supervision loop,
\* then the poll; on exit the remainder is read and the exit code classified.
LadaAfterPoll(cbs, run) ==
    { Outcome(cbs, run, "no", <<>>) }
    \cup
    LET remainder == RStripNewline(JoinLines(run.out))
        logs == IF run.out # <<>> THEN Append(run.logs, remainder) ELSE run.logs
        exited == [run EXCEPT !.at = 3, !.out = <<>>, !.logs = logs]
    IN IF run.code # 0 THEN { Outcome(cbs, exited, "raise", LadaError(logs)) }
       ELSE { Outcome(cbs, exited, "no", <<>>) }

\* lines 95-111: one iteration of the loop.  ev says what select and readline
\* gave: a line of the child's output, end of file, or no data within the
\* polling interval, in which case elapsed is read from the clock.
LadaOn(req, run, ev, elapsed) ==
    CASE ev = "line" ->
           LET line == Head(run.out)
               pct == MatchPct(line)
               dyn == IF pct >= 0 THEN Max(run.dyn, PctProgress(pct)) ELSE run.dyn
               cbs == IF pct >= 0 THEN << <<<<"restoring">>, Min(dyn, 9500)>> >> ELSE <<>>
           IN LadaAfterPoll(cbs, [run EXCEPT !.out = Tail(run.out), !.dyn = dyn,
                                               !.logs = Append(run.logs, line)])
      [] ev = "eof" -> LadaAfterPoll(<<>>, run)
      [] ev = "timeout" ->
           LET guessed == Guessed(req, elapsed)
           IN IF guessed > run.dyn
              THEN LadaAfterPoll(<< <<<<"restoring">>, guessed>> >>, [run EXCEPT !.dyn = guessed])
              ELSE LadaAfterPoll(<<>>, run)

\* what an iteration can meet: the child's next line or the end of its output
\* when the pipe is ready, or the timeout of select
LoopEvents(run) == IF run.out # <<>> THEN {"line", "timeout"} ELSE {"eof", "timeout"}

LadaLoop(req, run) ==
    UNION { LadaOn(req, run, ev, e) : ev \in LoopEvents(run), e \in ElapsedInputs }

\* lines 80-93: the callback before the spawn, Popen, and the loop's locals
LadaSpawn(run, children) ==
    { IF c.spawned
      THEN Outcome(<< <<<<"restoring">>, 3000>> >>,
                   [run EXCEPT !.at = 2, !.dyn = 3000, !.out = c.lines, !.code = c.code],
                   "no", <<>>)
      ELSE Outcome(<< <<<<"restoring">>, 3000>> >>, run, "raise",
                   <<"FileNotFoundError", "lada-cli">>) : c \in children }

LadaStep(req, run) ==
    CASE run.at = 0 ->
           IF req.output_path = NoneVal
           THEN { Outcome(<<>>, run, "raise",
                          <<"ValueError", "output_path is required for lada-cli runner">>) }
           ELSE { Outcome(<< <<<<"probing">>, 500>> >>, [run EXCEPT !.at = 1], "no", <<>>) }
      [] run.at = 1 -> LadaSpawn(run, Children)
      [] run.at = 2 -> LadaLoop(req, run)
      [] run.at = 3 -> { Outcome(<< <<<<"encoding">>, 9700>> >>, [run EXCEPT !.at = 4], "no", <<>>) }
      [] run.at = 4 -> { Outcome(<< <<<<"done">>, 10000>> >>, run, "return", <<>>) }

RunnerStep(req, run) ==
    IF run.kind = "dry-run" THEN DryRunStep(req, run) ELSE LadaStep(req, run)

(***************************************************************************)
(* State                                                                   *)
(***************************************************************************)
Thread(pc, job, run, amt, err) == [pc |-> pc, job |-> job, run |-> run, amt |-> amt, err |-> err]

DeadThread == Thread("dead", 0, NoRun, 0, <<>>)

is_alive(t) == t # 0 /\ threads[t].pc # "dead"

Returned(op, id, view) == [op |-> op, id |-> id, view |-> view]

NoReturn == Returned("none", 0, <<>>)

Observe(r) == IF observing THEN r ELSE NoReturn

TopupAmounts == {0, 3}

\* app/container.py, lines 26-35: the ledger of an empty store, topped up to
\* the bootstrap amount for the bootstrap user when that amount is positive
BootstrapAmounts == {0, 3}

Bootstrap(user_id, amount) ==
    LET bal == [u \in Users |-> 0]
    IN IF amount > 0 /\ bal[user_id] < amount
       THEN topup(bal, <<>>, user_id, amount - bal[user_id], "bootstrap_credit")
       ELSE LedgerFail(bal, <<>>, <<>>)

InitWith(obs) ==
    /\ observing = obs
    /\ jobs = <<>>
    /\ queue = <<>>
    /\ stop_event = FALSE
    /\ worker = 0
    /\ threads = [t \in ThreadIds |-> DeadThread]
    /\ ctl = "idle"
    /\ \E amount \in BootstrapAmounts :
          /\ balances = Bootstrap("u1", amount).balances
          /\ txns = Bootstrap("u1", amount).txns
          /\ store = Persisted(Bootstrap("u1", amount), <<>>)
    /\ invoked = [j \in JobIds |-> 0]
    /\ ret = NoReturn
    /\ calls = 0
    /\ disk = QuietDisk

Init == InitWith(FALSE)

InitApi == InitWith(TRUE)

(***************************************************************************)
(* JobManager: the calls of the API and of the application's lifespan      *)
(***************************************************************************)
\* start(): a new worker thread unless the current one is alive
Start ==
    /\ ctl = "idle"
    /\ ~is_alive(worker)
    /\ \E t \in ThreadIds :
          /\ threads[t].pc = "dead"
          /\ \A o \in ThreadIds : threads[o].pc = "dead" => t <= o
          /\ stop_event' = FALSE
          /\ worker' = t
          /\ threads' = [threads EXCEPT ![t] = Thread("loop", 0, NoRun, 0, <<>>)]
    /\ UNCHANGED <<jobs, queue, ctl, balances, txns, store, invoked, calls, observing, disk>>
    /\ ret' = NoReturn

\* stop(), lines 66-67: set the event, enqueue the sentinel, then join
StopSignal ==
    /\ ctl = "idle"
    /\ calls < MaxCalls
    /\ calls' = calls + 1
    /\ stop_event' = TRUE
    /\ queue' = Append(queue, 0)
    /\ ctl' = IF worker # 0 THEN "joining" ELSE "idle"
    /\ UNCHANGED <<jobs, worker, threads, balances, txns, store, invoked, observing, disk>>
    /\ ret' = NoReturn

\* stop(), lines 69-70: join returns when the worker has ended, or after its
\* timeout of 5 s while the worker is inside a runner
JoinReturns(t) == threads[t].pc = "dead" \/ threads[t].pc = "run"

StopJoin ==
    /\ ctl = "joining"
    /\ JoinReturns(worker)
    /\ worker' = 0
    /\ ctl' = "idle"
    /\ UNCHANGED <<jobs, queue, stop_event, threads, balances, txns, store, invoked, calls, observing, disk>>
    /\ ret' = NoReturn

CreateJob(req) ==
    /\ calls < MaxCalls
    /\ calls' = calls + 1
    /\ LET job_id == Len(jobs) + 1
           job == ManagedJob(ResolveRequest(req))
       IN /\ jobs' = Append(jobs, job)
          /\ queue' = Append(queue, job_id)
          /\ ret' = Observe(Returned("create_job", job_id, <<to_view(job_id, job)>>))
    /\ UNCHANGED <<stop_event, worker, threads, ctl, balances, txns, store, invoked, observing, disk>>

CancelJob(job_id) ==
    /\ IF ~Known(jobs, job_id)
       THEN /\ ret' = Observe(Returned("cancel_job", job_id, <<>>))
            /\ jobs' = jobs
       ELSE /\ jobs' = CancelIfQueued(jobs, job_id)
            /\ ret' = Observe(Returned("cancel_job", job_id, <<to_view(job_id, jobs'[job_id])>>))
    /\ calls' = IF jobs' = jobs THEN calls ELSE calls + 1
    /\ calls' <= MaxCalls
    /\ UNCHANGED <<queue, stop_event, worker, threads, ctl, balances, txns, store, invoked, observing, disk>>

\* api/credits.py and telegram_ops.py: the one ledger call the application
\* makes outside the worker
Topup(user_id, amount) ==
    /\ LET r == topup(balances, txns, user_id, amount, "manual_topup")
       IN /\ balances' = r.balances
          /\ txns' = r.txns
          /\ store' = Persisted(r, store)
          /\ calls' = IF r.ok THEN calls + 1 ELSE calls
    /\ calls' <= MaxCalls
    /\ UNCHANGED <<jobs, queue, stop_event, worker, threads, ctl, invoked, observing, disk>>
    /\ ret' = NoReturn

(***************************************************************************)
(* JobManager._run_loop, one action per step of a worker thread            *)
(***************************************************************************)
\* line 117: the loop condition
WLoop(t) ==
    /\ threads[t].pc = "loop"
    /\ threads' = [threads EXCEPT ![t].pc = IF stop_event THEN "dead" ELSE "get"]
    /\ UNCHANGED <<jobs, queue, stop_event, worker, ctl, balances, txns, store, invoked, calls, observing, disk>>
    /\ ret' = NoReturn

\* a queue.get that reads the head of the queue and leaves it there
WGetPeek(t) ==
    /\ threads[t].pc = "get"
    /\ IF queue = <<>>
       THEN threads' = [threads EXCEPT ![t].pc = "loop"]
       ELSE threads' = [threads EXCEPT ![t] =
                  IF Head(queue) = 0 THEN DeadThread
                  ELSE Thread("dispatch", Head(queue), NoRun, 0, <<>>)]
    /\ UNCHANGED <<jobs, queue, stop_event, worker, ctl, balances, txns, store, invoked, calls, observing, disk>>
    /\ ret' = NoReturn

\* lines 118-123: queue.get with its timeout; the sentinel ends the thread
WGet(t) ==
    /\ threads[t].pc = "get"
    /\ IF queue = <<>>
       THEN /\ threads' = [threads EXCEPT ![t].pc = "loop"]
            /\ queue' = queue
       ELSE /\ queue' = Tail(queue)
            /\ threads' = [threads EXCEPT ![t] =
                  IF Head(queue) = 0 THEN DeadThread
                  ELSE Thread("dispatch", Head(queue), NoRun, 0, <<>>)]
    /\ UNCHANGED <<jobs, stop_event, worker, ctl, balances, txns, store, invoked, calls, observing, disk>>
    /\ ret' = NoReturn

\* lines 125-132
WDispatch(t) ==
    /\ threads[t].pc = "dispatch"
    /\ LET job_id == threads[t].job
       IN IF SkipDispatch(jobs, job_id)
          THEN /\ threads' = [threads EXCEPT ![t] = Thread("loop", 0, NoRun, 0, <<>>)]
               /\ jobs' = jobs
          ELSE /\ jobs' = SetRunning(jobs, job_id)
               /\ threads' = [threads EXCEPT ![t].pc = "reserve"]
    /\ UNCHANGED <<queue, stop_event, worker, ctl, balances, txns, store, invoked, calls, observing, disk>>
    /\ ret' = NoReturn

\* line 135
WReserve(t) ==
    /\ threads[t].pc = "reserve"
    /\ LET job_id == threads[t].job
           req == jobs[job_id].request
           r == reserve(balances, txns, req.user_id, req.estimated_credits, job_id)
       IN /\ balances' = r.balances
          /\ txns' = r.txns
          /\ store' = Persisted(r, store)
          /\ threads' = [threads EXCEPT ![t] =
                IF r.ok THEN Thread("set_reserved", job_id, NoRun, 0 - r.txn[1].amount, <<>>)
                ELSE Thread("on_failure", job_id, NoRun, 0, r.error)]
    /\ UNCHANGED <<jobs, queue, stop_event, worker, ctl, invoked, calls, observing, disk>>
    /\ ret' = NoReturn

\* lines 136-138: record the reservation, build the runner, enter run
WSetReserved(t) ==
    /\ threads[t].pc = "set_reserved"
    /\ LET job_id == threads[t].job
           kinds == build_runner(jobs[job_id].request.runner)
       IN /\ jobs' = _set_reserved(jobs, job_id, threads[t].amt)
          /\ IF kinds = {}
             THEN /\ threads' = [threads EXCEPT ![t].pc = "on_failure",
                                                ![t].err = <<"ValueError", "Unsupported runner">>]
                  /\ invoked' = invoked
             ELSE /\ \E k \in kinds :
                        threads' = [threads EXCEPT ![t].pc = "run",
                                                   ![t].run = Run(k, 0, 0, <<>>, <<>>, 0)]
                  /\ invoked' = [invoked EXCEPT ![job_id] = @ + 1]
    /\ UNCHANGED <<queue, stop_event, worker, ctl, balances, txns, store, calls, observing, disk>>
    /\ ret' = NoReturn

RECURSIVE ApplyCalls(_, _, _)
ApplyCalls(reg, job_id, cbs) ==
    IF cbs = <<>> THEN reg
    ELSE ApplyCalls(_set_stage(reg, job_id, cbs[1][1], cbs[1][2]), job_id, Tail(cbs))

\* line 138: the runner, one callback at a time
WRun(t) ==
    /\ threads[t].pc = "run"
    /\ LET job_id == threads[t].job
       IN \E o \in RunnerStep(jobs[job_id].request, threads[t].run) :
             /\ jobs' = ApplyCalls(jobs, job_id, o.cbs)
             /\ threads' = [threads EXCEPT ![t] =
                   CASE o.end = "no" -> [@ EXCEPT !.run = o.run]
                     [] o.end = "return" -> Thread("on_done", job_id, NoRun, @.amt, <<>>)
                     [] o.end = "raise" -> Thread("on_failure", job_id, NoRun, @.amt, o.error)]
    /\ UNCHANGED <<queue, stop_event, worker, ctl, balances, txns, store, invoked, calls, observing, disk>>
    /\ ret' = NoReturn

\* line 142
WOnDone(t) ==
    /\ threads[t].pc = "on_done"
    /\ jobs' = SetDone(jobs, threads[t].job)
    /\ threads' = [threads EXCEPT ![t] = Thread("loop", 0, NoRun, 0, <<>>)]
    /\ UNCHANGED <<queue, stop_event, worker, ctl, balances, txns, store, invoked, calls, observing, disk>>
    /\ ret' = NoReturn

\* a failure handler that never refunds
RefundNothing(job) == 0

\* a failure handler that refunds the estimate, reserved or not
RefundEstimate(job) == job.request.estimated_credits

\* _on_failure, line 180: the amount read back from the job
RefundDue(job) == job.credits_reserved

\* _on_failure, lines 172-181: under the registry lock
WOnFailure(t) ==
    /\ threads[t].pc = "on_failure"
    /\ LET job_id == threads[t].job
           credits_reserved == RefundDue(jobs[job_id])
       IN /\ jobs' = SetFailed(jobs, job_id, threads[t].err)
          /\ threads' = [threads EXCEPT ![t] =
                IF credits_reserved > 0
                THEN Thread("refund", job_id, NoRun, credits_reserved, <<>>)
                ELSE Thread("loop", 0, NoRun, 0, <<>>)]
    /\ UNCHANGED <<queue, stop_event, worker, ctl, balances, txns, store, invoked, calls, observing, disk>>
    /\ ret' = NoReturn

\* _on_failure, lines 182-184: the refund, outside the registry lock
WRefund(t) ==
    /\ threads[t].pc = "refund"
    /\ LET job_id == threads[t].job
           r == refund(balances, txns, jobs[job_id].request.user_id, threads[t].amt, job_id)
       IN /\ balances' = r.balances
          /\ txns' = r.txns
          /\ store' = Persisted(r, store)
    /\ threads' = [threads EXCEPT ![t] = Thread("loop", 0, NoRun, 0, <<>>)]
    /\ UNCHANGED <<jobs, queue, stop_event, worker, ctl, invoked, calls, observing, disk>>
    /\ ret' = NoReturn

Next ==
    \/ Start
    \/ StopSignal
    \/ StopJoin
    \/ \E req \in JobRequests : CreateJob(req)
    \/ \E job_id \in 1..(Len(jobs) + 1) : CancelJob(job_id)
    \/ \E u \in Users, a \in TopupAmounts : Topup(u, a)
    \/ \E t \in ThreadIds : WLoop(t)
    \/ \E t \in ThreadIds : WGet(t)
    \/ \E t \in ThreadIds : WDispatch(t)
    \/ \E t \in ThreadIds : WReserve(t)
    \/ \E t \in ThreadIds : WSetReserved(t)
    \/ \E t \in ThreadIds : WRun(t)
    \/ \E t \in ThreadIds : WOnDone(t)
    \/ \E t \in ThreadIds : WOnFailure(t)
    \/ \E t \in ThreadIds : WRefund(t)

Spec == Init /\ [][Next]_vars

\* the serving phase (app/main.py, lines 20-26: the worker is started once and
\* stopped only at shutdown), with the returns of the job API recorded
NextApi ==
    \/ Start
    \/ \E req \in JobRequests : CreateJob(req)
    \/ \E job_id \in 1..(Len(jobs) + 1) : CancelJob(job_id)
    \/ \E u \in Users, a \in TopupAmounts : Topup(u, a)
    \/ \E t \in ThreadIds : WLoop(t)
    \/ \E t \in ThreadIds : WGet(t)
    \/ \E t \in ThreadIds : WDispatch(t)
    \/ \E t \in ThreadIds : WReserve(t)
    \/ \E t \in ThreadIds : WSetReserved(t)
    \/ \E t \in ThreadIds : WRun(t)
    \/ \E t \in ThreadIds : WOnDone(t)
    \/ \E t \in ThreadIds : WOnFailure(t)
    \/ \E t \in ThreadIds : WRefund(t)

SpecApi == InitApi /\ [][NextApi]_vars

(***************************************************************************)
(* The ledger alone: topup, reserve and refund called directly, with any   *)
(* arguments, on the ledger of an empty store.  Every call runs under the  *)
(* ledger's lock, so an interleaving of calls is a sequence of them.       *)
(***************************************************************************)
MaxTxns == 3

LedgerAmounts == {-1, 0, 1, 2}

InitLedger ==
    /\ InitWith(FALSE)
    /\ txns = <<>>

LedgerTopup(user_id, amount) ==
    /\ Len(txns) < MaxTxns
    /\ LET r == topup(balances, txns, user_id, amount, "seed")
       IN balances' = r.balances /\ txns' = r.txns /\ store' = Persisted(r, store)
    /\ UNCHANGED <<jobs, queue, stop_event, worker, threads, ctl, invoked, ret, calls, observing, disk>>

LedgerReserve(user_id, amount, ref_id) ==
    /\ Len(txns) < MaxTxns
    /\ LET r == reserve(balances, txns, user_id, amount, ref_id)
       IN balances' = r.balances /\ txns' = r.txns /\ store' = Persisted(r, store)
    /\ UNCHANGED <<jobs, queue, stop_event, worker, threads, ctl, invoked, ret, calls, observing, disk>>

LedgerRefund(user_id, amount, ref_id) ==
    /\ Len(txns) < MaxTxns
    /\ LET r == refund(balances, txns, user_id, amount, ref_id)
       IN balances' = r.balances /\ txns' = r.txns /\ store' = Persisted(r, store)
    /\ UNCHANGED <<jobs, queue, stop_event, worker, threads, ctl, invoked, ret, calls, observing, disk>>

NextLedger ==
    \/ \E u \in Users, a \in LedgerAmounts : LedgerTopup(u, a)
    \/ \E u \in Users, a \in LedgerAmounts, r \in 1..2 : LedgerReserve(u, a, r)
    \/ \E u \in Users, a \in LedgerAmounts, r \in 1..2 : LedgerRefund(u, a, r)

SpecLedger == InitLedger /\ [][NextLedger]_vars

(***************************************************************************)
(* The orchestrator and, beside it, callers that use the ledger directly:  *)
(* reserve and refund called for the user whose jobs are executing, while  *)
(* the application is serving.                                             *)
(***************************************************************************)
DirectAmounts == {0, 1, 2}

DirectReserve(user_id, amount, ref_id) ==
    /\ LET r == reserve(balances, txns, user_id, amount, ref_id)
       IN /\ balances' = r.balances
          /\ txns' = r.txns
          /\ store' = Persisted(r, store)
          /\ calls' = IF r.ok THEN calls + 1 ELSE calls
    /\ calls' <= MaxCalls
    /\ UNCHANGED <<jobs, queue, stop_event, worker, threads, ctl, invoked, observing, disk>>
    /\ ret' = NoReturn

DirectRefund(user_id, amount, ref_id) ==
    /\ LET r == refund(balances, txns, user_id, amount, ref_id)
       IN /\ balances' = r.balances
          /\ txns' = r.txns
          /\ store' = Persisted(r, store)
          /\ calls' = IF r.ok THEN calls + 1 ELSE calls
    /\ calls' <= MaxCalls
    /\ UNCHANGED <<jobs, queue, stop_event, worker, threads, ctl, invoked, observing, disk>>
    /\ ret' = NoReturn

NextCredit ==
    \/ Start
    \/ \E req \in JobRequests : CreateJob(req)
    \/ \E a \in TopupAmounts : Topup("u1", a)
    \/ \E t \in ThreadIds : WLoop(t)
    \/ \E t \in ThreadIds : WGet(t)
    \/ \E t \in ThreadIds : WDispatch(t)
    \/ \E t \in ThreadIds : WReserve(t)
    \/ \E t \in ThreadIds : WSetReserved(t)
    \/ \E t \in ThreadIds : WRun(t)
    \/ \E t \in ThreadIds : WOnDone(t)
    \/ \E t \in ThreadIds : WOnFailure(t)
    \/ \E t \in ThreadIds : WRefund(t)
    \/ \E a \in DirectAmounts : DirectReserve("u1", a, 1)
    \/ \E a \in DirectAmounts : DirectRefund("u1", a, 1)

SpecCredit == Init /\ [][NextCredit]_vars

(***************************************************************************)
(* The ledger's public methods called one at a time on the ledger of an    *)
(* empty store, each call with what it returned or raised recorded in ret. *)
(* User ids are any strings (core.py: user_id: str), the empty one too.    *)
(***************************************************************************)
CallUsers == {"u1", "u2", ""}

CallAmounts == {0, 1, 3}

Called(op, user_id, amount, ref_id, r) ==
    [op |-> op, user_id |-> user_id, amount |-> amount, ref_id |-> ref_id,
     ok |-> r.ok, error |-> r.error, result |-> r.txn]

InitCalls ==
    /\ observing = TRUE
    /\ jobs = <<>>
    /\ queue = <<>>
    /\ stop_event = FALSE
    /\ worker = 0
    /\ threads = [t \in ThreadIds |-> DeadThread]
    /\ ctl = "idle"
    /\ balances = [u \in CallUsers |-> 0]
    /\ txns = <<>>
    /\ store = <<>>
    /\ invoked = [j \in JobIds |-> 0]
    /\ ret = NoReturn
    /\ calls = 0
    /\ disk = QuietDisk

CallTopup(user_id, amount) ==
    /\ Len(txns) < MaxTxns
    /\ LET r == topup(balances, txns, user_id, amount, "seed")
       IN /\ balances' = r.balances
          /\ txns' = r.txns
          /\ store' = Persisted(r, store)
          /\ ret' = Called("topup", user_id, amount, 0, r)
    /\ UNCHANGED <<jobs, queue, stop_event, worker, threads, ctl, invoked, calls, observing, disk>>

CallReserve(user_id, amount, ref_id) ==
    /\ Len(txns) < MaxTxns
    /\ LET r == reserve(balances, txns, user_id, amount, ref_id)
       IN /\ balances' = r.balances
          /\ txns' = r.txns
          /\ store' = Persisted(r, store)
          /\ ret' = Called("reserve", user_id, amount, ref_id, r)
    /\ UNCHANGED <<jobs, queue, stop_event, worker, threads, ctl, invoked, calls, observing, disk>>

CallRefund(user_id, amount, ref_id) ==
    /\ Len(txns) < MaxTxns
    /\ LET r == refund(balances, txns, user_id, amount, ref_id)
       IN /\ balances' = r.balances
          /\ txns' = r.txns
          /\ store' = Persisted(r, store)
          /\ ret' = Called("refund", user_id, amount, ref_id, r)
    /\ UNCHANGED <<jobs, queue, stop_event, worker, threads, ctl, invoked, calls, observing, disk>>

CallListTransactions(user_id) ==
    /\ ret' = [op |-> "list_transactions", user_id |-> user_id, amount |-> 0, ref_id |-> 0,
               ok |-> TRUE, error |-> <<>>, result |-> list_transactions(txns, user_id)]
    /\ UNCHANGED <<jobs, queue, stop_event, worker, threads, ctl, balances, txns, store, invoked, calls, observing, disk>>

NextCalls ==
    \/ \E u \in CallUsers, a \in CallAmounts : CallTopup(u, a)
    \/ \E u \in CallUsers, a \in CallAmounts : CallReserve(u, a, 1)
    \/ \E u \in CallUsers, a \in CallAmounts : CallRefund(u, a, 1)
    \/ \E u \in CallUsers \cup {NoneVal} : CallListTransactions(u)

SpecCalls == InitCalls /\ [][NextCalls]_vars

(***************************************************************************)
(* resolve_models called on its own: every tier, a tier no preset has, and *)
(* for each role no override (None), an empty one, or a model id.          *)
(***************************************************************************)
ResolveTiers == {"balanced", "high", "ultra", "turbo"}

ResolveOverrides == {NoneVal, "", "my-model"}

Resolved(quality_tier, detector_model, restorer_model, refiner_model) ==
    [op |-> "resolve_models", quality_tier |-> quality_tier,
     detector_model |-> detector_model, restorer_model |-> restorer_model,
     refiner_model |-> refiner_model,
     result |-> resolve_models(quality_tier, detector_model, restorer_model, refiner_model)]

InitResolve == InitCalls

CallResolveModels(quality_tier, detector_model, restorer_model, refiner_model) ==
    /\ ret' = Resolved(quality_tier, detector_model, restorer_model, refiner_model)
    /\ UNCHANGED <<jobs, queue, stop_event, worker, threads, ctl, balances, txns, store, invoked, calls, observing, disk>>

NextResolve ==
    \E tier \in ResolveTiers, d \in ResolveOverrides, r \in ResolveOverrides, f \in ResolveOverrides :
        CallResolveModels(tier, d, r, f)

SpecResolve == InitResolve /\ [][NextResolve]_vars

(***************************************************************************)
(* estimate_credits called on its own: every tier of QUALITY_MULTIPLIER,   *)
(* durations that are absent (0), negative, small, and around the          *)
(* multiples of 120.                                                       *)
(***************************************************************************)
EstimateTiers == {"balanced", "high", "ultra"}

EstimateDurations == (-2..30) \cup (115..125) \cup (235..245) \cup (355..365)

Estimated(duration_hint_seconds, quality_tier) ==
    [op |-> "estimate_credits", duration_hint_seconds |-> duration_hint_seconds,
     quality_tier |-> quality_tier,
     result |-> estimate_credits(duration_hint_seconds, quality_tier)]

InitEstimate == InitCalls

CallEstimateCredits(duration_hint_seconds, quality_tier) ==
    /\ ret' = Estimated(duration_hint_seconds, quality_tier)
    /\ UNCHANGED <<jobs, queue, stop_event, worker, threads, ctl, balances, txns, store, invoked, calls, observing, disk>>

NextEstimate ==
    \E d \in EstimateDurations, tier \in EstimateTiers : CallEstimateCredits(d, tier)

SpecEstimate == InitEstimate /\ [][NextEstimate]_vars

(***************************************************************************)
(* build_runner called on its own: the three names it knows, names that    *)
(* differ from them in case or spelling, and the path lookup finding       *)
(* nothing or the executable at one of several places.                     *)
(***************************************************************************)
BuildNames ==
    {"auto", "dry-run", "lada-cli", "", "Auto", "AUTO", "dry_run", "dryrun",
     "lada", "ladacli", "mock", "none"}

BuildWhich ==
    {NoneVal, "/usr/local/bin/lada-cli", "/usr/bin/lada-cli", "/bin/lada-cli",
     "/opt/lada/bin/lada-cli", "/home/u1/.local/bin/lada-cli", "/snap/bin/lada-cli",
     "/app/.venv/bin/lada-cli", "C:\\lada\\lada-cli.EXE"}

BuiltCall(name, which) ==
    [op |-> "build_runner", name |-> name, which |-> which,
     result |-> build_runner_with(name, which)]

InitBuild == InitCalls

CallBuildRunner(name, which) ==
    /\ ret' = BuiltCall(name, which)
    /\ UNCHANGED <<jobs, queue, stop_event, worker, threads, ctl, balances, txns, store, invoked, calls, observing, disk>>

NextBuild == \E name \in BuildNames, which \in BuildWhich : CallBuildRunner(name, which)

SpecBuild == InitBuild /\ [][NextBuild]_vars

(***************************************************************************)
(* The read operations of the job API, get_job and list_jobs, interleaved  *)
(* with create_job, cancel_job and the worker.  A job carries created_at,  *)
(* the clock reading taken when ManagedJob is constructed: create_job      *)
(* constructs the job before it takes the registry lock (lines 88-90), so  *)
(* concurrent calls may register jobs in another order than their          *)
(* created_at, and two readings may be equal.  The requests name the       *)
(* simulated runner, which never raises: a job fails here only when its    *)
(* reservation does, with nothing reserved, so no refund step is ever due. *)
(***************************************************************************)
Stamps == 1..2

ReadRequests ==
    { Request("u1", 1, 0, "dry-run", "balanced", NoneVal, NoneVal, NoneVal, NoneVal) }

\* ManagedJob with its created_at (lines 24, 44)
ManagedJobAt(request, created_at) == ManagedJob(request) @@ [created_at |-> created_at]

JobViewAt(id, job) == to_view(id, job) @@ [created_at |-> job.created_at]

\* get_job, lines 95-98: the view of a known id, None (no view) otherwise
get_job(reg, job_id) == IF Known(reg, job_id) THEN <<JobViewAt(job_id, reg[job_id])>> ELSE <<>>

\* sorted(..., key=created_at, reverse=True) is stable: of two jobs with the
\* same created_at the one registered first (dict order) comes first
SortsBefore(reg, i, k) ==
    \/ reg[i].created_at > reg[k].created_at
    \/ reg[i].created_at = reg[k].created_at /\ i < k

\* a list_jobs that returns the jobs in the order they were registered
list_jobs_unsorted(reg) == [pos \in 1..Len(reg) |-> JobViewAt(pos, reg[pos])]

\* list_jobs, lines 100-103
list_jobs(reg) ==
    LET Place(i) == 1 + Cardinality({k \in 1..Len(reg) : SortsBefore(reg, k, i)})
        At(pos) == CHOOSE i \in 1..Len(reg) : Place(i) = pos
    IN [pos \in 1..Len(reg) |-> JobViewAt(At(pos), reg[At(pos)])]

CreateJobAt(req, created_at) ==
    /\ calls < MaxCalls
    /\ calls' = calls + 1
    /\ LET job_id == Len(jobs) + 1
           job == ManagedJobAt(ResolveRequest(req), created_at)
       IN /\ jobs' = Append(jobs, job)
          /\ queue' = Append(queue, job_id)
          /\ ret' = Observe(Returned("create_job", job_id, <<JobViewAt(job_id, job)>>))
    /\ UNCHANGED <<stop_event, worker, threads, ctl, balances, txns, store, invoked, observing, disk>>

\* StageCallback (runners.py, line 13): what a runner may pass to on_stage
\* is not restricted; here a progress below 0, inside and above 1
CallbackProgress == {-2500, 5000, 12500}

\* a runner calling on_stage with any progress while it runs (line 138)
WCallback(t, progress) ==
    /\ threads[t].pc = "run"
    /\ jobs' = _set_stage(jobs, threads[t].job, <<"custom">>, progress)
    /\ UNCHANGED <<queue, stop_event, worker, threads, ctl, balances, txns, store, invoked, calls, observing, disk>>
    /\ ret' = NoReturn

GetJob(job_id) ==
    /\ ret' = Observe(Returned("get_job", job_id, get_job(jobs, job_id)))
    /\ UNCHANGED <<jobs, queue, stop_event, worker, threads, ctl, balances, txns, store, invoked, calls, observing, disk>>

ListJobs ==
    /\ ret' = Observe(Returned("list_jobs", 0, list_jobs(jobs)))
    /\ UNCHANGED <<jobs, queue, stop_event, worker, threads, ctl, balances, txns, store, invoked, calls, observing, disk>>

NextRead ==
    \/ Start
    \/ \E req \in ReadRequests, created_at \in Stamps : CreateJobAt(req, created_at)
    \/ \E job_id \in 1..(Len(jobs) + 1) : CancelJob(job_id)
    \/ \E job_id \in 1..(Len(jobs) + 1) : GetJob(job_id)
    \/ ListJobs
    \/ \E t \in ThreadIds : WLoop(t)
    \/ \E t \in ThreadIds : WGet(t)
    \/ \E t \in ThreadIds : WDispatch(t)
    \/ \E t \in ThreadIds : WReserve(t)
    \/ \E t \in ThreadIds : WSetReserved(t)
    \/ \E t \in ThreadIds : WRun(t)
    \/ \E t \in ThreadIds : WOnDone(t)
    \/ \E t \in ThreadIds : WOnFailure(t)
    \/ \E t \in ThreadIds, progress \in CallbackProgress : WCallback(t, progress)

SpecRead == InitApi /\ [][NextRead]_vars

(***************************************************************************)
(* One JsonStore called by two threads, and the process crashing at any    *)
(* point.  The file found at the store's path when the process starts is   *)
(* not the program's to choose: it may be absent, a saved snapshot, a      *)
(* truncated one, JSON that is no object, or bytes that are no text; a     *)
(* temporary file may be left from a save an earlier crash cut short.      *)
(***************************************************************************)
FoundTargets ==
    { NoFile, File(json_dump("p1")), File(<<"{", "p1">>), File(JsonList), File(<<BadBytes>>) }

FoundTmps == { NoFile, File(<<"{">>) }

InitStore ==
    /\ observing = TRUE
    /\ jobs = <<>>
    /\ queue = <<>>
    /\ stop_event = FALSE
    /\ worker = 0
    /\ threads = [t \in ThreadIds |-> DeadThread]
    /\ ctl = "idle"
    /\ balances = [u \in Users |-> 0]
    /\ txns = <<>>
    /\ store = <<>>
    /\ invoked = [j \in JobIds |-> 0]
    /\ ret = NoReturn
    /\ calls = 0
    /\ \E target \in FoundTargets, tmp \in FoundTmps :
          disk = Disk(target, tmp, 0, [t \in StoreThreads |-> IdleCaller])

StoreFrame == UNCHANGED <<jobs, queue, stop_event, worker, threads, ctl, balances, txns, store, invoked, ret, calls, observing>>

\* load_dict, lines 14-23, under the store's lock
StoreLoad(t) ==
    /\ disk.th[t].pc = "idle"
    /\ disk.lock = 0
    /\ disk' = [disk EXCEPT !.th[t].result = load_dict(disk.target)]
    /\ StoreFrame

\* save_dict, line 26: take the lock
SaveBegin(t, payload) ==
    /\ disk.th[t].pc = "idle"
    /\ disk.lock = 0
    /\ disk' = [disk EXCEPT !.lock = t,
                            !.th[t] = StoreCaller("open_tmp", payload, 0, NoResult)]
    /\ StoreFrame

\* lines 27-29: open the temporary file for writing, which empties it
SaveOpenTmp(t) ==
    /\ disk.th[t].pc = "open_tmp"
    /\ disk' = [disk EXCEPT !.tmp = File(<<>>), !.th[t].pc = "write"]
    /\ StoreFrame

\* line 30: one more chunk of the payload reaches the temporary file
SaveWrite(t) ==
    /\ disk.th[t].pc = "write"
    /\ disk.th[t].at < Len(json_dump(disk.th[t].payload))
    /\ LET at == disk.th[t].at + 1
       IN disk' = [disk EXCEPT !.tmp = File(Append(@.data, json_dump(disk.th[t].payload)[at])),
                               !.th[t].at = at]
    /\ StoreFrame

\* line 31, after the file is closed: rename the temporary file over the
\* target, then release the lock
SaveReplace(t) ==
    /\ disk.th[t].pc = "write"
    /\ disk.th[t].at = Len(json_dump(disk.th[t].payload))
    /\ disk' = [disk EXCEPT !.target = disk.tmp, !.tmp = NoFile, !.lock = 0,
                            !.th[t] = StoreCaller("idle", EmptyDict, 0,
                                                  StoreResult("save", TRUE, disk.th[t].payload, <<>>))]
    /\ StoreFrame

\* the process dies and is started again: its threads and its lock are gone,
\* the files stay as they are
StoreCrash ==
    /\ \E t \in StoreThreads : disk.th[t].pc # "idle"
    /\ disk' = [disk EXCEPT !.lock = 0, !.th = [t \in StoreThreads |-> IdleCaller]]
    /\ StoreFrame

NextStore ==
    \/ \E t \in StoreThreads : StoreLoad(t)
    \/ \E t \in StoreThreads, payload \in StorePayloads : SaveBegin(t, payload)
    \/ \E t \in StoreThreads : SaveOpenTmp(t)
    \/ \E t \in StoreThreads : SaveWrite(t)
    \/ \E t \in StoreThreads : SaveReplace(t)
    \/ StoreCrash

SpecStore == InitStore /\ [][NextStore]_vars

(***************************************************************************)
(* The locks: JobManager._lock ("registry"), CreditLedger._lock ("ledger") *)
(* and JsonStore._lock ("store"), each a threading.Lock, which is not      *)
(* reentrant.  A call path is the sequence of acquires and releases its    *)
(* with-blocks make, each labelled with the method that makes it.  In this *)
(* specification threads holds, for the worker and two API threads, the    *)
(* rest of the path being run (todo) and the locks held.                   *)
(***************************************************************************)
\* with lock: a block that takes no other lock
Under(lock, call) == << <<"acquire", lock, call>>, <<"release", lock, call>> >>

\* credits.py, a method that changes the ledger: _persist, and with it
\* save_dict's with-block, runs inside the ledger's
LedgerWrite(call) ==
    << <<"acquire", "ledger", call>>, <<"acquire", "store", call>>,
       <<"release", "store", call>>, <<"release", "ledger", call>> >>

\* an _on_failure that refunds before it releases the registry lock
OnFailurePathNested(refunds) ==
    IF refunds
    THEN << <<"acquire", "registry", "_on_failure">> >> \o LedgerWrite("refund")
            \o << <<"release", "registry", "_on_failure">> >>
    ELSE Under("registry", "_on_failure")

\* _on_failure, lines 171-184: the refund follows the with-block
OnFailurePath(refunds) ==
    Under("registry", "_on_failure") \o (IF refunds THEN LedgerWrite("refund") ELSE <<>>)

\* _run_loop, lines 125-142: one iteration after a job id is taken off the queue
WorkerPaths ==
    LET dispatch == Under("registry", "_run_loop")
        reserved == dispatch \o LedgerWrite("reserve") \o Under("registry", "_set_reserved")
    IN { dispatch,
         dispatch \o Under("ledger", "reserve") \o OnFailurePath(FALSE),
         reserved \o OnFailurePath(TRUE),
         reserved \o Under("registry", "_set_stage") \o OnFailurePath(TRUE),
         reserved \o Under("registry", "_set_stage") \o Under("registry", "_on_done") }

\* the API's calls: create_job, get_job, list_jobs and cancel_job take the
\* registry lock; topup writes the ledger and is followed by get_balance
\* (api/credits.py, lines 19-20); get_balance and list_transactions read it
ApiPaths ==
    { Under("registry", "create_job"), Under("registry", "cancel_job"),
      Under("registry", "get_job"), Under("registry", "list_jobs"),
      LedgerWrite("topup") \o Under("ledger", "get_balance"),
      Under("ledger", "list_transactions") }

LockThreads == {"worker", "api1", "api2"}

PathsOf(t) == IF t = "worker" THEN WorkerPaths ELSE ApiPaths

InitLocks ==
    /\ observing = TRUE
    /\ jobs = <<>>
    /\ queue = <<>>
    /\ stop_event = FALSE
    /\ worker = 0
    /\ threads = [t \in LockThreads |-> [todo |-> <<>>, held |-> {}]]
    /\ ctl = "idle"
    /\ balances = [u \in Users |-> 0]
    /\ txns = <<>>
    /\ store = <<>>
    /\ invoked = [j \in JobIds |-> 0]
    /\ ret = NoReturn
    /\ calls = 0
    /\ disk = QuietDisk

LockFrame == UNCHANGED <<jobs, queue, stop_event, worker, ctl, balances, txns, store, invoked, ret, calls, observing, disk>>

Holder(lock) == {t \in LockThreads : lock \in threads[t].held}

LockBegin(t, path) ==
    /\ threads[t].todo = <<>>
    /\ threads' = [threads EXCEPT ![t].todo = path]
    /\ LockFrame

\* Lock.acquire blocks while any thread, the caller included, holds the lock
LockAcquire(t) ==
    /\ threads[t].todo # <<>>
    /\ Head(threads[t].todo)[1] = "acquire"
    /\ Holder(Head(threads[t].todo)[2]) = {}
    /\ threads' = [threads EXCEPT ![t].todo = Tail(@),
                                  ![t].held = @ \cup {Head(threads[t].todo)[2]}]
    /\ LockFrame

LockRelease(t) ==
    /\ threads[t].todo # <<>>
    /\ Head(threads[t].todo)[1] = "release"
    /\ threads' = [threads EXCEPT ![t].todo = Tail(@),
                                  ![t].held = @ \ {Head(threads[t].todo)[2]}]
    /\ LockFrame

NextLocks ==
    \/ \E t \in LockThreads : \E path \in PathsOf(t) : LockBegin(t, path)
    \/ \E t \in LockThreads : LockAcquire(t)
    \/ \E t \in LockThreads : LockRelease(t)

SpecLocks == InitLocks /\ [][NextLocks]_vars

(***************************************************************************)
(* The serving phase under fair scheduling: the worker thread, once        *)
(* started, is a runnable operating-system thread and goes on taking       *)
(* steps.  The requests name runners whose run always ends: the simulated  *)
(* runner returns after its stages, and the external-process runner raises *)
(* at once when it is given no output path.                                *)
(***************************************************************************)
LiveRequests ==
    { Request("u1", 1, 0, "dry-run", "balanced", NoneVal, NoneVal, NoneVal, NoneVal),
      Request("u1", 1, 0, "lada-cli", "balanced", NoneVal, NoneVal, NoneVal, NoneVal) }

WorkerStep ==
    \E t \in ThreadIds :
        \/ WLoop(t) \/ WGet(t) \/ WDispatch(t) \/ WReserve(t) \/ WSetReserved(t)
        \/ WRun(t) \/ WOnDone(t) \/ WOnFailure(t) \/ WRefund(t)

NextLive ==
    \/ Start
    \/ \E req \in LiveRequests : CreateJob(req)
    \/ \E job_id \in 1..(Len(jobs) + 1) : CancelJob(job_id)
    \/ WorkerStep

SpecLive == Init /\ [][NextLive]_vars /\ WF_vars(WorkerStep)

(***************************************************************************)
(* The ledger over a store whose save can fail.  save_dict (storage.py     *)
(* 25-31) creates the directory, writes the temporary file and renames it; *)
(* each of these raises OSError when the file system refuses.  topup,      *)
(* reserve and refund call _persist as their last statement before the     *)
(* return, after the balance is assigned and the transaction appended.     *)
(***************************************************************************)
SaveOutcomes == {"saved", "OSError"}

\* the outcome of an operation whose save_dict call ends as `saved` says: the
\* exception leaves the method from line 28, 40 or 49, the assignments of the
\* lines before it made
PersistOutcome(r, saved) ==
    IF r.ok /\ saved = "OSError"
    THEN [ok |-> FALSE, error |-> <<"OSError">>, balances |-> r.balances,
          txns |-> r.txns, txn |-> <<>>]
    ELSE r

PersistTopup(user_id, amount, saved) ==
    /\ Len(txns) < MaxTxns
    /\ LET r == PersistOutcome(topup(balances, txns, user_id, amount, "seed"), saved)
       IN /\ balances' = r.balances
          /\ txns' = r.txns
          /\ store' = Persisted(r, store)
          /\ ret' = Called("topup", user_id, amount, 0, r)
    /\ UNCHANGED <<jobs, queue, stop_event, worker, threads, ctl, invoked, calls, observing, disk>>

PersistReserve(user_id, amount, ref_id, saved) ==
    /\ Len(txns) < MaxTxns
    /\ LET r == PersistOutcome(reserve(balances, txns, user_id, amount, ref_id), saved)
       IN /\ balances' = r.balances
          /\ txns' = r.txns
          /\ store' = Persisted(r, store)
          /\ ret' = Called("reserve", user_id, amount, ref_id, r)
    /\ UNCHANGED <<jobs, queue, stop_event, worker, threads, ctl, invoked, calls, observing, disk>>

PersistRefund(user_id, amount, ref_id, saved) ==
    /\ Len(txns) < MaxTxns
    /\ LET r == PersistOutcome(refund(balances, txns, user_id, amount, ref_id), saved)
       IN /\ balances' = r.balances
          /\ txns' = r.txns
          /\ store' = Persisted(r, store)
          /\ ret' = Called("refund", user_id, amount, ref_id, r)
    /\ UNCHANGED <<jobs, queue, stop_event, worker, threads, ctl, invoked, calls, observing, disk>>

NextPersist ==
    \/ \E u \in Users, a \in CallAmounts, sv \in SaveOutcomes : PersistTopup(u, a, sv)
    \/ \E u \in Users, a \in CallAmounts, sv \in SaveOutcomes : PersistReserve(u, a, 1, sv)
    \/ \E u \in Users, a \in CallAmounts, sv \in SaveOutcomes : PersistRefund(u, a, 1, sv)

SpecPersist == InitLedger /\ [][NextPersist]_vars

(***************************************************************************)
(* LadaCliRunner.run alone: one call, for a request and a child process,   *)
(* advanced one statement group or one loop iteration at a time.  ret      *)
(* holds the call: the runner's locals, every callback made so far, what   *)
(* the last iteration met and the wall time read or passed at it.          *)
(***************************************************************************)
LadaHints == {0, 5, 60}

LadaRequests ==
    { Request("u1", 1, h, "lada-cli", "balanced", "my-detector", "my-restorer", NoneVal, "out.mp4") : h \in LadaHints }

\* lines of the child's output: percentages, one above 100, one with a blank
\* before the sign, a line without a percentage, and an empty line
LadaLines ==
    { <<"5", "0", "%">>, <<"7", " ", "%">>, <<"1", "5", "0", "%">>, <<"e">>, <<>> }

MaxLines == 2

LadaOutputs == UNION { [1..n -> LadaLines] : n \in 0..MaxLines }

LadaChildren ==
    { Child(TRUE, lines, code) : lines \in LadaOutputs, code \in {0, 1} }
    \cup { Child(FALSE, <<>>, 0) }

\* wall time since the spawn, in tenths of a second
LadaElapsed == {3, 90, 400}

LadaCall(req, child, run, cbs, ev, elapsed, end, error) ==
    [op |-> "run", req |-> req, child |-> child, run |-> run, cbs |-> cbs,
     ev |-> ev, elapsed |-> elapsed, end |-> end, error |-> error]

CallLadaRun(req, child) ==
    /\ ret = NoReturn
    /\ ret' = LadaCall(req, child, Run("lada-cli", 0, 0, <<>>, <<>>, 0), <<>>, "none", 0, "no", <<>>)
    /\ UNCHANGED <<jobs, queue, stop_event, worker, threads, ctl, balances, txns, store, invoked, calls, observing, disk>>

\* the statements outside the loop
LadaAdvance ==
    /\ ret # NoReturn /\ ret.end = "no" /\ ret.run.at # 2
    /\ \E o \in IF ret.run.at = 1 THEN LadaSpawn(ret.run, {ret.child})
                ELSE LadaStep(ret.req, ret.run) :
          ret' = LadaCall(ret.req, ret.child, o.run, ret.cbs \o o.cbs, "none", ret.elapsed,
                          o.end, o.error)
    /\ UNCHANGED <<jobs, queue, stop_event, worker, threads, ctl, balances, txns, store, invoked, calls, observing, disk>>

\* one iteration of the loop, at a wall time not before the last one
LadaIterate(ev, elapsed) ==
    /\ ret # NoReturn /\ ret.end = "no" /\ ret.run.at = 2
    /\ ev \in LoopEvents(ret.run)
    /\ elapsed >= ret.elapsed
    /\ \E o \in LadaOn(ret.req, ret.run, ev, elapsed) :
          ret' = LadaCall(ret.req, ret.child, o.run, ret.cbs \o o.cbs, ev, elapsed,
                          o.end, o.error)
    /\ UNCHANGED <<jobs, queue, stop_event, worker, threads, ctl, balances, txns, store, invoked, calls, observing, disk>>

NextLada ==
    \/ \E req \in LadaRequests, c \in LadaChildren : CallLadaRun(req, c)
    \/ LadaAdvance
    \/ \E ev \in {"line", "eof", "timeout"}, e \in LadaElapsed : LadaIterate(ev, e)

SpecLada == InitCalls /\ [][NextLada]_vars

(***************************************************************************)
(* DryRunRunner.run alone: one call for a request, one callback at a time, *)
(* with every callback made so far held in ret.                            *)
(***************************************************************************)
DryRunRequests ==
    { Request("local", 1, 0, "dry-run", tier, detector, "my-restorer", refiner, "out.mp4") :
        tier \in {"balanced", "high", "ultra"},
        detector \in {"my-detector", "yolo11x-seg-baseline"},
        refiner \in {NoneVal, "", "my-refiner"} }

DryRunCall(req, run, cbs, end) ==
    [op |-> "dry-run", req |-> req, run |-> run, cbs |-> cbs, end |-> end]

CallDryRun(req) ==
    /\ ret = NoReturn
    /\ ret' = DryRunCall(req, Run("dry-run", 0, 0, <<>>, <<>>, 0), <<>>, "no")
    /\ UNCHANGED <<jobs, queue, stop_event, worker, threads, ctl, balances, txns, store, invoked, calls, observing, disk>>

\* lines 47-49: the next stage of the list is reported
DryRunAdvance ==
    /\ ret # NoReturn /\ ret.end = "no"
    /\ \E o \in DryRunStep(ret.req, ret.run) :
          ret' = DryRunCall(ret.req, o.run, ret.cbs \o o.cbs, o.end)
    /\ UNCHANGED <<jobs, queue, stop_event, worker, threads, ctl, balances, txns, store, invoked, calls, observing, disk>>

NextDryRun ==
    \/ \E req \in DryRunRequests : CallDryRun(req)
    \/ DryRunAdvance

SpecDryRun == InitCalls /\ [][NextDryRun]_vars

(***************************************************************************)
(* LadaCliRunner.run, lines 58-78: the argument vector.  Every argument is *)
(* a tuple of one-character strings.  The option map is a sequence of      *)
(* <<key, value>> pairs in the map's order, a value being <<"bool", b>>,   *)
(* <<"int", n>> or <<"str", text>>.                                        *)
(***************************************************************************)
\* str(n) for an integer
RECURSIVE IntStr(_)
IntStr(n) ==
    IF n < 0 THEN <<"-">> \o IntStr(0 - n)
    ELSE IF n < 10 THEN <<Digits[n + 1]>>
    ELSE IntStr(n \div 10) \o <<Digits[(n % 10) + 1]>>

\* an option name that keeps the key's underscores
OptionNameVerbatim(key) == <<"-", "-">> \o key

\* line 73: f"--{key.replace('_', '-')}"
OptionName(key) == <<"-", "-">> \o [i \in 1..Len(key) |-> IF key[i] = "_" THEN "-" ELSE key[i]]

\* lines 74-78: the arguments one option adds
OptionArgs(key, value) ==
    IF value[1] = "bool"
    THEN IF value[2] THEN <<OptionName(key)>> ELSE <<>>
    ELSE <<OptionName(key), IF value[1] = "int" THEN IntStr(value[2]) ELSE value[2]>>

RECURSIVE ForwardedArgs(_)
ForwardedArgs(options) ==
    IF options = <<>> THEN <<>>
    ELSE OptionArgs(options[1][1], options[1][2]) \o ForwardedArgs(Tail(options))

\* the text of an id that is set; None and "" are not (lines 66 and 68)
ModelArgs(flag, model) == IF model \in {<<>>, <<"None">>} THEN <<>> ELSE <<flag, model>>

LadaCommand(input_path, output_path, detector_model, restorer_model, options) ==
    << <<"l", "a", "d", "a", "-", "c", "l", "i">>,
       <<"-", "-", "i", "n", "p", "u", "t">>, input_path,
       <<"-", "-", "o", "u", "t", "p", "u", "t">>, output_path >>
    \o ModelArgs(<<"-", "-", "m", "o", "s", "a", "i", "c", "-", "d", "e", "t", "e", "c", "t", "i", "o", "n", "-", "m", "o", "d", "e", "l">>, detector_model)
    \o ModelArgs(<<"-", "-", "m", "o", "s", "a", "i", "c", "-", "r", "e", "s", "t", "o", "r", "a", "t", "i", "o", "n", "-", "m", "o", "d", "e", "l">>, restorer_model)
    \o ForwardedArgs(options)

MaxOptions == 2

CommandOptions ==
    { << <<"f", "p", "1", "6">>, <<"bool", TRUE>> >>,
      << <<"d", "r", "y", "_", "r", "u", "n">>, <<"bool", FALSE>> >>,
      << <<"m", "a", "x", "_", "c", "l", "i", "p", "_", "l", "e", "n">>, <<"int", 180>> >>,
      << <<"s", "e", "e", "d">>, <<"int", -7>> >>,
      << <<"d", "e", "v", "i", "c", "e">>, <<"str", <<"c", "u", "d", "a", ":", "0">> >> >> }

\* the option maps: up to MaxOptions options with distinct keys, in any order
CommandOptionMaps ==
    UNION { { m \in [1..n -> CommandOptions] : \A i, k \in 1..n : m[i][1] = m[k][1] => i = k } :
            n \in 0..MaxOptions }

\* None is <<"None">>; the other ids are their text
CommandModels == { <<"None">>, <<>>, <<"m", "1">> }

CommandCall(detector_model, restorer_model, options, command) ==
    [op |-> "command", detector_model |-> detector_model, restorer_model |-> restorer_model,
     options |-> options, command |-> command]

CallLadaCommand(detector_model, restorer_model, options) ==
    /\ ret' = CommandCall(detector_model, restorer_model, options,
                          LadaCommand(<<"i", "n">>, <<"o", "u", "t">>, detector_model,
                                      restorer_model, options))
    /\ UNCHANGED <<jobs, queue, stop_event, worker, threads, ctl, balances, txns, store, invoked, calls, observing, disk>>

NextCommand ==
    \E d \in CommandModels, r \in CommandModels, o \in CommandOptionMaps : CallLadaCommand(d, r, o)

SpecCommand == InitCalls /\ [][NextCommand]_vars

(***************************************************************************)
(* vistora/services/serial_run.py: run_local_serial._handle_stage, lines   *)
(* 167-179.  Progress is in percent here, time in milliseconds; a         *)
(* quotient is the pair <<numerator, denominator>>, None is <<>>, and the  *)
(* frame count of the probe is <<>> when unknown and <<n>> otherwise.      *)
(***************************************************************************)
Frac(num, den) == <<num, den>>

\* an estimator that computes fps whenever the frame count is known
_handle_stage_fps_at_zero(on_progress, total_frames, stage, progress, clock) ==
    IF ~on_progress THEN <<>>
    ELSE LET safe_progress == Max(0, Min(100, progress))
             elapsed == Max(1, clock)
             fps == IF total_frames # <<>> /\ total_frames[1] # 0
                    THEN <<Frac(10 * total_frames[1] * safe_progress, elapsed)>>
                    ELSE <<>>
             eta == IF safe_progress > 0
                    THEN <<Frac(elapsed * (100 - safe_progress), safe_progress)>>
                    ELSE <<>>
         IN << [stage |-> stage, progress |-> safe_progress, elapsed |-> elapsed,
                fps |-> fps, eta |-> eta] >>

\* the arguments on_progress is called with, in a tuple, or <<>> when there
\* is no on_progress; clock is time.perf_counter() - start.
\* fps in frames per second: frames * (p / 100) / (elapsed / 1000)
_handle_stage(on_progress, total_frames, stage, progress, clock) ==
    IF ~on_progress THEN <<>>
    ELSE LET safe_progress == Max(0, Min(100, progress))
             elapsed == Max(1, clock)
             fps == IF total_frames # <<>> /\ total_frames[1] # 0 /\ safe_progress > 0
                    THEN <<Frac(10 * total_frames[1] * safe_progress, elapsed)>>
                    ELSE <<>>
             eta == IF safe_progress > 0
                    THEN <<Frac(elapsed * (100 - safe_progress), safe_progress)>>
                    ELSE <<>>
         IN << [stage |-> stage, progress |-> safe_progress, elapsed |-> elapsed,
                fps |-> fps, eta |-> eta] >>

StageProgress == {-25, 0, 1, 5, 78, 100, 125}

StageClocks == {0, 1, 450, 3000}

ProbeFrames == { <<>>, <<0>>, <<1>>, <<240>> }

StageCall(on_progress, total_frames, progress, clock, args) ==
    [op |-> "_handle_stage", on_progress |-> on_progress, total_frames |-> total_frames,
     input |-> progress, clock |-> clock, args |-> args]

CallHandleStage(on_progress, total_frames, progress, clock) ==
    /\ ret' = StageCall(on_progress, total_frames, progress, clock,
                        _handle_stage(on_progress, total_frames, "restoring", progress, clock))
    /\ UNCHANGED <<jobs, queue, stop_event, worker, threads, ctl, balances, txns, store, invoked, calls, observing, disk>>

NextProgress ==
    \E cb \in BOOLEAN, f \in ProbeFrames, pr \in StageProgress, c \in StageClocks :
        CallHandleStage(cb, f, pr, c)

SpecProgress == InitCalls /\ [][NextProgress]_vars

(***************************************************************************)
(* Properties                                                              *)
(***************************************************************************)
JobSet == 1..Len(jobs)

\* the positions in the log of the transactions of a kind that reference a job
RefTxns(job_id, kind) ==
    {i \in 1..Len(txns) : txns[i].ref_id = job_id /\ txns[i].kind = kind}

UserTxns(user_id) == SelectSeq(txns, LAMBDA x : x.user_id = user_id)

\* a worker thread is still working on the job
InProgress(job_id) == \E t \in ThreadIds : threads[t].job = job_id

Running == {j \in JobSet : jobs[j].status = "running"}

InRunner == {t \in ThreadIds : threads[t].pc = "run"}

\* C1: at most one job has status running and at most one runner invocation
\* is in progress, in every reachable state.
C1_AtMostOneJobExecutes ==
    /\ Cardinality(Running) <= 1
    /\ Cardinality(InRunner) <= 1

AllowedTransition(a, b) ==
    \/ a = b
    \/ <<a, b>> \in { <<"queued", "running">>, <<"queued", "canceled">>,
                      <<"running", "done">>, <<"running", "failed">> }

CreatedQueued(job) ==
    /\ job.status = "queued"
    /\ job.stage = <<"queued">>
    /\ job.progress = 0
    /\ job.credits_reserved = 0
    /\ job.error = <<>>

\* C2: every job is created queued (stage queued, progress 0, credits_reserved
\* 0, error unset), which is what the view create_job returns shows; a job's
\* status only ever steps queued->running, queued->canceled, running->done or
\* running->failed, so done, failed and canceled are never left.
C2_Lifecycle ==
    [][ /\ Len(jobs') >= Len(jobs)
        /\ \A j \in JobSet : AllowedTransition(jobs[j].status, jobs'[j].status)
        /\ \A j \in (Len(jobs) + 1)..Len(jobs') :
              /\ CreatedQueued(jobs'[j])
              /\ ret'.op = "create_job" /\ ret'.id = j
              /\ ret'.view = <<to_view(j, jobs'[j])>>
              /\ CreatedQueued(ret'.view[1]) ]_vars

C2_Witness ==
    /\ ret.op = "cancel_job" /\ ret.view # <<>>
    /\ ret.view[1].status = "done"
    /\ \E j \in JobSet : jobs[j].status = "canceled"

\* the worker has finished with a job it dispatched and whose reservation succeeded
Settled(job_id) == RefTxns(job_id, "reserve") # {} /\ ~InProgress(job_id)

\* C3: a job whose runner failed after its credits were reserved is failed with
\* its error set, and the ledger holds exactly one refund for it, of the
\* reserved amount and for the job's user, so that the transactions of the job
\* sum to zero and the balance is what the user's other transactions make it.
C3_FailureRefundsOnce ==
    \A j \in JobSet :
        (Settled(j) /\ jobs[j].status # "done") =>
            /\ jobs[j].status = "failed"
            /\ jobs[j].error # <<>>
            /\ Cardinality(RefTxns(j, "refund")) = 1
            /\ Cardinality(RefTxns(j, "reserve")) = 1
            /\ \A r \in RefTxns(j, "refund"), v \in RefTxns(j, "reserve") :
                  /\ txns[r].amount = 0 - txns[v].amount
                  /\ txns[r].user_id = jobs[j].request.user_id
                  /\ v < r
            /\ LET u == jobs[j].request.user_id
               IN balances[u] = SumAmounts(SelectSeq(UserTxns(u), LAMBDA x : x.ref_id # j))

C3_Witness ==
    \E j \in JobSet :
        /\ Settled(j)
        /\ jobs[j].status = "failed"
        /\ jobs[j].error[1] = "RuntimeError"
        /\ balances[jobs[j].request.user_id] = 3

\* C4: a job's credits_reserved is nonzero only between its successful
\* reservation and its refund: zero before the reserve, zero after the refund.
C4_ReservedOnlyWhileHeld ==
    \A j \in JobSet :
        jobs[j].credits_reserved # 0 =>
            /\ RefTxns(j, "reserve") # {}
            /\ RefTxns(j, "refund") = {}

\* C5: the ledger holds at most one refund per job id, and a refund only for a
\* job that failed after its reservation succeeded.
C5_RefundAtMostOnce ==
    /\ \A i \in 1..Len(txns) : txns[i].kind = "refund" => txns[i].ref_id \in JobSet
    /\ \A j \in JobSet :
          /\ Cardinality(RefTxns(j, "refund")) <= 1
          /\ RefTxns(j, "refund") # {} =>
                /\ jobs[j].status = "failed"
                /\ \E v \in RefTxns(j, "reserve") : \A r \in RefTxns(j, "refund") : v < r

C5_Witness ==
    \E j, k, l \in JobSet :
        /\ RefTxns(j, "refund") # {}
        /\ jobs[k].status = "failed" /\ RefTxns(k, "reserve") = {}
        /\ jobs[l].status = "done" /\ RefTxns(l, "refund") = {}

InsufficientFailure(job) ==
    job.status = "failed" /\ job.error[1] = "insufficient credits"

\* C6: when reserve fails at dispatch for lack of balance, the balance and the
\* log are unchanged, the job ends failed with the error text of the
\* reservation, no refund follows, and its runner is never invoked,
\* its credits_reserved stays 0 and no transaction references it.
C6_ReservationFailure ==
    /\ [](\A j \in JobSet : InsufficientFailure(jobs[j]) =>
            /\ invoked[j] = 0
            /\ jobs[j].credits_reserved = 0
            /\ \A i \in 1..Len(txns) : txns[i].ref_id # j
            /\ ~InProgress(j))
    /\ [][\A t \in ThreadIds :
            LET j == threads[t].job
                u == jobs[j].request.user_id
                need == jobs[j].request.estimated_credits
            IN /\ (threads[t].pc = "reserve" /\ threads'[t].pc # "reserve"
                   /\ balances[u] < need) =>
                      /\ balances' = balances /\ txns' = txns
                      /\ threads'[t].pc = "on_failure"
                      /\ threads'[t].err = <<"insufficient credits", balances[u], need>>
               /\ (threads[t].pc = "on_failure" /\ threads'[t].pc # "on_failure"
                   /\ threads[t].err[1] = "insufficient credits") =>
                      /\ jobs'[j].status = "failed"
                      /\ jobs'[j].error = threads[t].err
                      /\ threads'[t].pc = "loop" ]_vars

C6_Witness ==
    \E j \in JobSet :
        /\ InsufficientFailure(jobs[j])
        /\ jobs[j].error = <<"insufficient credits", 1, 2>>
        /\ ~InProgress(j)
        /\ balances[jobs[j].request.user_id] = 1

\* app/settings.py line 21: credit enforcement is off unless configured
enforce_credits == FALSE

\* C7: with credit enforcement disabled, executing jobs appends no ledger
\* transaction for them, changes no balance and leaves credits_reserved 0.
C7_NoReserveWhenDisabled ==
    ~enforce_credits =>
        /\ \A i \in 1..Len(txns) : txns[i].kind = "topup"
        /\ \A j \in JobSet : jobs[j].credits_reserved = 0
        /\ \A j \in JobSet : ~InsufficientFailure(jobs[j])

\* C8: a canceled job is never dispatched: it never becomes running, its
\* runner is never invoked, no transaction references it, and its status is
\* never overwritten.
C8_CancelPreventsDispatch ==
    /\ [](\A j \in JobSet : jobs[j].status = "canceled" =>
            /\ invoked[j] = 0
            /\ \A i \in 1..Len(txns) : txns[i].ref_id # j
            /\ jobs[j].credits_reserved = 0
            /\ \A t \in ThreadIds : threads[t].job = j => threads[t].pc = "dispatch")
    /\ [][\A j \in JobSet : jobs[j].status = "canceled" => jobs'[j] = jobs[j]]_vars

\* the worker dequeued a canceled job and skipped it
C8_Witness ==
    \E j \in JobSet :
        /\ jobs[j].status = "canceled"
        /\ \A i \in 1..Len(queue) : queue[i] # j
        /\ ~InProgress(j)
        /\ \E k \in JobSet : k > j /\ jobs[k].status = "done"

BalanceIsSum == \A u \in Users : balances[u] = SumAmounts(UserTxns(u))

C10_BalanceIsSumOfTxns ==
    /\ []BalanceIsSum
    /\ [][ \/ (txns' = txns /\ balances' = balances)
           \/ /\ Len(txns') = Len(txns) + 1
              /\ SubSeq(txns', 1, Len(txns)) = txns
              /\ LET t == txns'[Len(txns')]
                 IN /\ balances' = [balances EXCEPT ![t.user_id] = @ + t.amount]
                    /\ t.kind \in {"topup", "refund"} => t.amount >= 1
                    /\ t.kind = "reserve" => t.amount <= -1 ]_vars

C10_Witness ==
    /\ Len(txns) = 3
    /\ txns[1].kind = "topup" /\ txns[2].kind = "reserve" /\ txns[3].kind = "refund"
    /\ txns[2].amount = -2 /\ txns[3].amount = 1
    /\ balances["u1"] = 1 /\ balances["u2"] = 0

\* C11: no user's balance is ever negative, while jobs reserve at dispatch and
\* are refunded on failure and topup, reserve and refund are called directly
\* for the same user.
C11_BalanceNeverNegative == \A u \in Users : balances[u] >= 0

\* a direct reserve emptied the balance that a later job then found insufficient
C11_Witness ==
    /\ balances["u1"] = 0
    /\ \E j \in JobSet : InsufficientFailure(jobs[j]) /\ jobs[j].error[2] = 0
    /\ \E k \in JobSet : jobs[k].credits_reserved > 0

\* C12: a reserve of more than the user's balance (0 for a user the ledger
\* has never seen) raises the insufficient-credits error and leaves the
\* balances, the log and the saved file as they were.
C12_ReserveInsufficient ==
    [][ (ret'.op = "reserve" /\ ret'.amount > balances[ret'.user_id]) =>
            /\ ret'.ok = FALSE
            /\ ret'.error = <<"insufficient credits", balances[ret'.user_id], ret'.amount>>
            /\ ret'.result = <<>>
            /\ balances' = balances
            /\ txns' = txns
            /\ store' = store ]_vars

\* balance 1, reserve 3: the scenario of test_insufficient_credit
C12_Witness ==
    /\ ret.op = "reserve" /\ ret.user_id = "u1" /\ ret.amount = 3
    /\ ret.ok = FALSE
    /\ balances["u1"] = 1
    /\ store = _persist(balances, txns)

\* C13: topup with amount >= 1 adds exactly amount to that user's balance,
\* appends exactly one topup transaction of that amount and changes no other
\* balance; with amount < 1 it raises the validation error and changes
\* neither balances nor log.
C13_TopupEffect ==
    [][ ret'.op = "topup" =>
          LET u == ret'.user_id
              a == ret'.amount
          IN IF a >= 1
             THEN /\ ret'.ok
                  /\ balances' = [balances EXCEPT ![u] = balances[u] + a]
                  /\ txns' = Append(txns, Txn(u, a, "topup", "seed", 0))
                  /\ ret'.result = <<txns'[Len(txns')]>>
                  /\ store' = _persist(balances', txns')
             ELSE /\ ret'.ok = FALSE
                  /\ ret'.error = <<"topup amount must be >= 1">>
                  /\ balances' = balances
                  /\ txns' = txns
                  /\ store' = store ]_vars

\* a rejected topup after an accepted one
C13_Witness ==
    /\ ret.op = "topup" /\ ret.amount = 0 /\ ret.ok = FALSE
    /\ Len(txns) = 2
    /\ txns[1].kind = "topup" /\ txns[2].kind = "topup"
    /\ balances["u1"] = 3 /\ balances["u2"] = 1

\* C14: in every ledger state, for every user with balance b and every amount
\* a with 1 <= a <= b, reserve(user, a, ref) then refund(user, a, ref) both
\* succeed and leave the user's balance at b and every other balance as it was.
C14_ReserveRefundRestores ==
    \A u \in CallUsers : \A a \in 1..balances[u] :
        LET r1 == reserve(balances, txns, u, a, 1)
            r2 == refund(r1.balances, r1.txns, u, a, 1)
        IN /\ r1.ok /\ r2.ok
           /\ r1.balances[u] = balances[u] - a
           /\ r2.balances = balances

\* balance 3, reserve 1, refund 1: back at 3
C14_Witness ==
    /\ ret.op = "refund" /\ ret.ok
    /\ Len(txns) = 3
    /\ txns[1] = Txn("u1", 3, "topup", "seed", 0)
    /\ txns[2] = Txn("u1", -1, "reserve", "job_reserve", 1)
    /\ txns[3] = Txn("u1", 1, "refund", "job_refund", 1)
    /\ balances["u1"] = 3 /\ balances["u2"] = 0

\* C15: the ledger does not deduplicate refunds by ref_id: in every ledger
\* state, refund(user, a, ref) called twice with the same ref_id succeeds
\* twice, raises the balance by 2a and appends two refund transactions.
C15_RefundNotIdempotent ==
    \A u \in CallUsers : \A a \in CallAmounts \ {0} :
        LET r1 == refund(balances, txns, u, a, 1)
            r2 == refund(r1.balances, r1.txns, u, a, 1)
        IN /\ r1.ok /\ r2.ok
           /\ r2.balances = [balances EXCEPT ![u] = balances[u] + 2 * a]
           /\ r2.txns = txns \o << Txn(u, a, "refund", "job_refund", 1),
                                   Txn(u, a, "refund", "job_refund", 1) >>

\* the same refund made twice
C15_Witness ==
    /\ ret.op = "refund" /\ ret.ok
    /\ Len(txns) = 2
    /\ txns[1] = Txn("u1", 3, "refund", "job_refund", 1)
    /\ txns[2] = txns[1]
    /\ balances["u1"] = 6

\* C16: the log is append-only (no step modifies, reorders or removes a
\* transaction already in it), list_transactions() returns the whole log in
\* insertion order, and list_transactions(user) returns exactly the
\* transactions of that user, in the order of the log.
C16_AppendOnlyAndListing ==
    /\ [][ /\ Len(txns') >= Len(txns)
           /\ SubSeq(txns', 1, Len(txns)) = txns ]_vars
    /\ [][ ret'.op = "list_transactions" =>
             /\ txns' = txns
             /\ ret'.result =
                  IF ret'.user_id = NoneVal THEN txns
                  ELSE SelectSeq(txns, LAMBDA x : x.user_id = ret'.user_id) ]_vars

DryRunning(t) == threads[t].pc = "run" /\ threads[t].run.kind = "dry-run"

C19_OutputPathFilled ==
    [][ \A req \in JobRequests :
          CreateJob(req) =>
              LET view == ret'.view[1]
              IN /\ view.output_path # NoneVal
                 /\ jobs'[ret'.id].request.output_path = view.output_path
                 /\ req.output_path # NoneVal => view.output_path = req.output_path ]_vars

\* the preset a tier stands for, the high one for a tier no preset has
TierPreset(tier) ==
    CASE tier = "balanced" -> [detector_model |-> "yolo11x-seg-baseline",
                               restorer_model |-> "basicvsrpp-v2-baseline",
                               refiner_model |-> NoneVal]
      [] tier = "ultra" -> [detector_model |-> "mask2former-swinl-candidate",
                            restorer_model |-> "vrt-large-candidate",
                            refiner_model |-> "diffusion-video-refiner-candidate"]
      [] OTHER -> [detector_model |-> "rtdetrv2-l-candidate",
                   restorer_model |-> "rvrt-base-candidate",
                   refiner_model |-> "swinir-video-refiner-candidate"]

\* C20 as stated: for each of the three roles resolve_models returns the
\* override whenever one is given (anything but None) and the tier's preset
\* id otherwise, an unrecognized tier counting as high.
C20_OverrideAlwaysWins ==
    ret.op = "resolve_models" =>
        LET preset == TierPreset(ret.quality_tier)
        IN /\ ret.result.detector_model =
                  IF ret.detector_model # NoneVal THEN ret.detector_model
                  ELSE preset.detector_model
           /\ ret.result.restorer_model =
                  IF ret.restorer_model # NoneVal THEN ret.restorer_model
                  ELSE preset.restorer_model
           /\ ret.result.refiner_model =
                  IF ret.refiner_model # NoneVal THEN ret.refiner_model
                  ELSE preset.refiner_model

\* C20 amended: a detector or restorer override wins when it is a non-empty
\* string (None and "" fall back to the tier's preset id); a refiner override
\* wins whenever it is not None, the empty string included; with no overrides
\* tier high yields the high preset's detector and restorer and a non-null
\* refiner, tier balanced a null refiner; an unrecognized tier resolves as
\* tier high does.
C20_ResolveModels ==
    ret.op = "resolve_models" =>
        LET preset == TierPreset(ret.quality_tier)
            none == ret.detector_model = NoneVal /\ ret.restorer_model = NoneVal
                    /\ ret.refiner_model = NoneVal
        IN /\ ret.result.detector_model =
                  IF ret.detector_model \in {NoneVal, ""} THEN preset.detector_model
                  ELSE ret.detector_model
           /\ ret.result.restorer_model =
                  IF ret.restorer_model \in {NoneVal, ""} THEN preset.restorer_model
                  ELSE ret.restorer_model
           /\ ret.result.refiner_model =
                  IF ret.refiner_model = NoneVal THEN preset.refiner_model
                  ELSE ret.refiner_model
           /\ (none /\ ret.quality_tier = "high") =>
                  /\ ret.result.detector_model = "rtdetrv2-l-candidate"
                  /\ ret.result.restorer_model = "rvrt-base-candidate"
                  /\ ret.result.refiner_model # NoneVal
           /\ (none /\ ret.quality_tier = "balanced") => ret.result.refiner_model = NoneVal
           /\ ret.quality_tier \notin {"balanced", "high", "ultra"} =>
                  ret.result = resolve_models("high", ret.detector_model,
                                              ret.restorer_model, ret.refiner_model)

\* an unrecognized tier with an empty detector override, a restorer override
\* and an empty refiner override
C20_Witness ==
    /\ ret.op = "resolve_models"
    /\ ret.quality_tier = "turbo"
    /\ ret.detector_model = "" /\ ret.restorer_model = "my-model" /\ ret.refiner_model = ""
    /\ ret.result = [detector_model |-> "rtdetrv2-l-candidate",
                     restorer_model |-> "my-model", refiner_model |-> ""]

\* the position of a tier in balanced < high < ultra
TierRank(tier) == CASE tier = "balanced" -> 1 [] tier = "high" -> 2 [] tier = "ultra" -> 3

\* C21: estimate_credits returns blocks x multiplier, where blocks is the
\* least n >= 1 with 120 n >= d (d the duration when present and > 0, else
\* 120) and the multipliers are balanced 1, high 2, ultra 4; the result is
\* at least 1, and of two calls with the same duration the one with the
\* higher tier returns strictly more.
C21_EstimateCredits ==
    /\ [](ret.op = "estimate_credits" =>
            LET d == IF ret.duration_hint_seconds > 0 THEN ret.duration_hint_seconds ELSE 120
                m == CASE ret.quality_tier = "balanced" -> 1
                       [] ret.quality_tier = "high" -> 2
                       [] ret.quality_tier = "ultra" -> 4
            IN /\ ret.result >= 1
               /\ \E n \in 1..4 :
                    /\ 120 * n >= d
                    /\ n > 1 => 120 * (n - 1) < d
                    /\ ret.result = n * m)
    /\ [][ ( /\ ret.op = "estimate_credits"
             /\ ret'.op = "estimate_credits"
             /\ ret'.duration_hint_seconds = ret.duration_hint_seconds
             /\ TierRank(ret.quality_tier) < TierRank(ret'.quality_tier) )
           => ret.result < ret'.result ]_vars

\* 241 seconds are three blocks, at tier ultra twelve credits
C21_Witness ==
    /\ ret.op = "estimate_credits"
    /\ ret.duration_hint_seconds = 241
    /\ ret.quality_tier = "ultra"
    /\ ret.result = 12

\* C22: build_runner("auto") returns the external-process runner exactly
\* when the lookup of its executable finds a path and the simulated runner
\* otherwise; "dry-run" and "lada-cli" select their runner whatever the lookup
\* finds; every other name raises the unsupported-runner error.
C22_BuildRunner ==
    ret.op = "build_runner" =>
        LET found == ret.which # NoneVal
        IN CASE ret.name = "auto" ->
                  /\ ret.result.ok
                  /\ ret.result.runner \in {"lada-cli", "dry-run"}
                  /\ ret.result.runner = "lada-cli" <=> found
             [] ret.name = "dry-run" -> ret.result.ok /\ ret.result.runner = "dry-run"
             [] ret.name = "lada-cli" -> ret.result.ok /\ ret.result.runner = "lada-cli"
             [] OTHER ->
                  /\ ~ret.result.ok
                  /\ ret.result.error = <<"ValueError", "Unsupported runner">>

\* "auto" with no executable on the path falls back to the simulated runner
C22_Witness ==
    /\ ret.op = "build_runner"
    /\ ret.name = "auto"
    /\ ret.which = NoneVal
    /\ ret.result.ok /\ ret.result.runner = "dry-run"

\* C23: list_jobs returns one view of every registered job, each exactly
\* once and showing the job as it is, ordered by created_at with the newest
\* first; get_job returns the view of a known id and nothing for an unknown
\* one; neither changes a job, the queue or the ledger; and the registry only
\* grows, every job keeping its request and its created_at.
C23_ReadOperations ==
    /\ [](ret.op = "list_jobs" =>
            /\ Len(ret.view) = Len(jobs)
            /\ \A j \in JobSet :
                 Cardinality({pos \in 1..Len(ret.view) : ret.view[pos].id = j}) = 1
            /\ \A pos \in 1..Len(ret.view) :
                 LET v == ret.view[pos]
                 IN /\ v.id \in JobSet
                    /\ v.status = jobs[v.id].status
                    /\ v.stage = jobs[v.id].stage
                    /\ v.progress = jobs[v.id].progress
                    /\ v.created_at = jobs[v.id].created_at
            /\ \A a, b \in 1..Len(ret.view) :
                 a < b => ret.view[a].created_at >= ret.view[b].created_at)
    /\ [](ret.op = "get_job" =>
            IF ret.id \in JobSet
            THEN /\ Len(ret.view) = 1
                 /\ ret.view[1].id = ret.id
                 /\ ret.view[1].status = jobs[ret.id].status
                 /\ ret.view[1].stage = jobs[ret.id].stage
                 /\ ret.view[1].progress = jobs[ret.id].progress
            ELSE ret.view = <<>>)
    /\ [][ ret'.op \in {"get_job", "list_jobs"} =>
             UNCHANGED <<jobs, queue, balances, txns, store>> ]_vars
    /\ [][ /\ Len(jobs') >= Len(jobs)
           /\ \A j \in JobSet : /\ jobs'[j].request = jobs[j].request
                                /\ jobs'[j].created_at = jobs[j].created_at ]_vars

\* three jobs registered with created_at 1, 2, 1 are listed as second, first,
\* third, while the first one is running
C23_Witness ==
    /\ ret.op = "list_jobs"
    /\ Len(ret.view) = 3
    /\ ret.view[1].id = 2 /\ ret.view[1].created_at = 2
    /\ ret.view[2].id = 1 /\ ret.view[2].created_at = 1 /\ ret.view[2].status = "running"
    /\ ret.view[3].id = 3 /\ ret.view[3].created_at = 1

\* a file that holds one complete saved snapshot
CompleteSnapshot(file) == file.exists /\ \E p \in StorePayloads : file.data = json_dump(p)

\* the target file changes only by becoming the complete snapshot being saved
TargetReplacedWhole ==
    [][ \/ disk'.target = disk.target
        \/ \E t \in StoreThreads :
              /\ disk.th[t].pc = "write"
              /\ disk'.target = File(json_dump(disk.th[t].payload)) ]_vars

\* C24: a save replaces the target file in one step by the complete new
\* snapshot, so that at every point, a crash in the middle of a save and
\* calls from two threads included, the target holds the complete previous
\* content or the complete new one; and load never fails: it returns the
\* snapshot in the target file, or the empty snapshot when the file is
\* missing or cannot be read as one.
C24_AtomicSaveAndLoad ==
    /\ TargetReplacedWhole
    /\ [][ \A t \in StoreThreads :
             (disk'.th[t].result.op = "load" /\ disk'.th[t].result # disk.th[t].result) =>
                 /\ disk'.th[t].result.ok
                 /\ disk'.th[t].result.value =
                        IF CompleteSnapshot(disk.target) THEN disk.target.data[2]
                        ELSE EmptyDict ]_vars

\* a thread in the middle of a call that can take its next step
CanProceed(t) ==
    /\ threads[t].todo # <<>>
    /\ Head(threads[t].todo)[1] = "acquire" => Holder(Head(threads[t].todo)[2]) = {}

\* C25: no thread ever holds the registry lock and the ledger lock together
\* (reserve and refund run with the registry lock released, the refund after
\* _on_failure's with-block), and the threads never deadlock: whenever some
\* thread is in the middle of a call, one of them can take its next step.
C25_LocksNeverNested ==
    /\ \A t \in LockThreads : ~({"registry", "ledger"} \subseteq threads[t].held)
    /\ \A l \in {"registry", "ledger", "store"} : Cardinality(Holder(l)) <= 1
    /\ (\E t \in LockThreads : threads[t].todo # <<>>) => \E t \in LockThreads : CanProceed(t)

\* the worker is writing the refund to the store, holding the ledger lock,
\* while an API thread holds the registry lock and the other waits for the
\* ledger
C25_Witness ==
    /\ threads["worker"].held = {"ledger", "store"}
    /\ Head(threads["worker"].todo) = <<"release", "store", "refund">>
    /\ threads["api1"].held = {"registry"}
    /\ threads["api2"].todo # <<>>
    /\ Head(threads["api2"].todo) = <<"acquire", "ledger", "topup">>

\* what a consistent view of a job shows
ConsistentView(v) ==
    /\ v.status = "done" => v.progress = 10000 /\ v.stage = <<"done">>
    /\ v.status = "failed" <=> v.error # <<>>
    /\ v.status = "canceled" => v.stage = <<"canceled">>
    /\ v.status = "queued" => v.progress = 0 /\ v.credits_reserved = 0
    /\ 0 <= v.progress /\ v.progress <= 10000

\* C26: every view returned by get_job, list_jobs or cancel_job, at any
\* point of any interleaving with the worker, is consistent: done implies
\* progress 1.0 and stage done; failed exactly when the error is set; canceled
\* implies stage canceled; queued implies progress 0 and nothing reserved;
\* and the progress lies within [0, 1] whatever a runner passed to on_stage.
C26_ConsistentSnapshots ==
    ret.op \in {"get_job", "list_jobs", "cancel_job"} =>
        \A pos \in 1..Len(ret.view) : ConsistentView(ret.view[pos])

\* a listing taken while the second job runs, its progress clamped to 1.0
\* from the 1.25 a callback passed, the first job done and the third queued
C26_Witness ==
    /\ ret.op = "list_jobs"
    /\ \E a, b, c \in 1..Len(ret.view) :
          /\ ret.view[a].status = "done" /\ ret.view[a].id = 1
          /\ ret.view[b].status = "queued" /\ ret.view[b].id = 3
          /\ ret.view[c].status = "running" /\ ret.view[c].id = 2
          /\ ret.view[c].stage = <<"custom">>
          /\ ret.view[c].progress = 10000

\* C27: jobs begin running in the order create_job enqueued them: when a job
\* leaves queued to run, every job enqueued before it is already terminal
\* (done, failed or canceled), so an earlier job has left queued before a
\* later one does and the later one does not start while the earlier one runs.
C27_FifoDispatch ==
    [][ \A a, b \in JobSet :
          ( /\ a < b
            /\ jobs[b].status = "queued"
            /\ jobs'[b].status = "running" )
          => jobs[a].status \in {"done", "failed", "canceled"} ]_vars

C29_RestartedWorkerKeepsRunning ==
    (worker # 0 /\ ~stop_event) => threads[worker].pc # "dead"

\* C30: each job is dispatched at most once: across stop/start cycles, two
\* workers and cancels, the runner is entered at most once per job, the
\* ledger holds at most one reserve transaction per job id, and a job id is
\* in the queue or with a worker thread at most once.
C30_DispatchedAtMostOnce ==
    \A j \in JobSet :
        /\ invoked[j] <= 1
        /\ Cardinality(RefTxns(j, "reserve")) <= 1
        /\ Cardinality({i \in 1..Len(queue) : queue[i] = j})
             + Cardinality({t \in ThreadIds : threads[t].job = j}) <= 1

\* after a stop whose join timed out and a second start, two workers have
\* each run one job, each job once
C30_Witness ==
    /\ Len(jobs) = 2
    /\ InRunner = {1, 2}
    /\ threads[1].job # threads[2].job
    /\ \A j \in JobSet : invoked[j] = 1 /\ Cardinality(RefTxns(j, "reserve")) = 1

\* C31: a ledger operation that raises, for any reason, a failure of the save
\* included, leaves the in-memory balances and the transaction log exactly
\* as they were before the call.
C31_AllOrNothing ==
    [][ (ret' # NoReturn /\ ret'.op \in {"topup", "reserve", "refund"} /\ ~ret'.ok)
        => (balances' = balances /\ txns' = txns) ]_vars

\* no job is executing and no failure handler is between marking its job
\* failed and refunding it
Quiescent == Running = {} /\ \A t \in ThreadIds : threads[t].pc # "refund"

TopupSum(user_id) ==
    SumAmounts(SelectSeq(txns, LAMBDA x : x.user_id = user_id /\ x.kind = "topup"))

RECURSIVE DoneCost(_, _)
DoneCost(user_id, n) ==
    IF n = 0 THEN 0
    ELSE DoneCost(user_id, n - 1)
         + (IF jobs[n].status = "done" /\ jobs[n].request.user_id = user_id
            THEN jobs[n].credits_reserved ELSE 0)

\* the net amount of the transactions that reference the job
JobNet(job_id) == SumAmounts(SelectSeq(txns, LAMBDA x : x.ref_id = job_id))

EstimatedFor(req) ==
    IF req.estimated_credits # 0 THEN req.estimated_credits
    ELSE CeilDiv(IF req.duration_hint_seconds > 0 THEN req.duration_hint_seconds ELSE 120, 120)
         * (CASE req.quality_tier = "balanced" -> 1
              [] req.quality_tier = "high" -> 2
              [] req.quality_tier = "ultra" -> 4)

\* C33: a job with nonzero credits_reserved has reserved exactly its estimated
\* credits, and the log holds a reserve transaction with the job's id as
\* ref_id, the job's user and minus that amount.
C33_ReservedIsEstimate ==
    \A j \in JobSet :
        jobs[j].credits_reserved # 0 =>
            /\ \E req \in JobRequests :
                  /\ jobs[j].request = ResolveRequest(req)
                  /\ jobs[j].credits_reserved = EstimatedFor(req)
            /\ \E i \in RefTxns(j, "reserve") :
                  /\ txns[i].user_id = jobs[j].request.user_id
                  /\ txns[i].amount = 0 - jobs[j].credits_reserved

\* one job reserved its explicit estimate, another the computed one
C33_Witness ==
    \E j, k \in JobSet :
        /\ jobs[j].credits_reserved = 2 /\ jobs[j].request.runner = "lada-cli"
        /\ jobs[k].credits_reserved = 1 /\ jobs[k].request.runner = "auto"

\* C34: when topup, reserve or refund has returned normally, the saved payload
\* holds the in-memory balances and log, and a ledger constructed over the
\* store reports the same balance for every user and the same transactions
\* in the same order.
C34_PersistedEqualsMemory ==
    (ret.op \in {"topup", "reserve", "refund"} /\ ret.ok) =>
        /\ store = <<[balances |-> balances, transactions |-> txns]>>
        /\ LET fresh == CreditLedger(store, CallUsers)
           IN /\ \A u \in CallUsers : fresh.balances[u] = balances[u]
              /\ \A u \in CallUsers \cup {NoneVal} :
                    list_transactions(fresh.txns, u) = list_transactions(txns, u)

\* a reserve has just returned after a topup, so the snapshot holds two
\* transactions and a balance that went up and down
C34_Witness ==
    /\ ret.op = "reserve" /\ ret.ok
    /\ Len(txns) = 2 /\ txns[1].kind = "topup"
    /\ balances["u1"] = 2

\* the progress values of the callbacks a call has made, in order
Reported(cbs) == [i \in 1..Len(cbs) |-> cbs[i][2]]

\* C35: in the external-process runner every progress reported for the
\* restoring stage lies in [0.30, 0.95]; a line with percentage p reports the
\* larger of the last report and 0.30 + 0.65 * clamp(p, 0, 100) / 100, a line
\* without one reports nothing; the reported progress never decreases.
C35_RestoringBand ==
    /\ [](ret.op = "run" =>
            /\ \A i \in 1..Len(ret.cbs) :
                  ret.cbs[i][1] = <<"restoring">> =>
                      ret.cbs[i][2] >= 3000 /\ ret.cbs[i][2] <= 9500
            /\ \A i \in 1..(Len(ret.cbs) - 1) :
                  Reported(ret.cbs)[i] <= Reported(ret.cbs)[i + 1])
    /\ [][ (ret.op = "run" /\ ret'.ev = "line" /\ ret' # ret) =>
              LET pct == MatchPct(Head(ret.run.out))
                  last == Reported(ret.cbs)[Len(ret.cbs)]
                  clamped == IF pct > 100 THEN 100 ELSE pct
                  mapped == 3000 + 65 * clamped
              IN IF pct >= 0
                 THEN ret'.cbs = Append(ret.cbs,
                          <<<<"restoring">>, IF mapped > last THEN mapped ELSE last>>)
                 ELSE ret'.cbs = ret.cbs ]_vars

\* the child wrote 50% and then 7 %, both lines were read, and an
\* extrapolation was reported before them: the second line repeats 0.625
C35_Witness ==
    /\ ret.op = "run" /\ ret.ev = "line"
    /\ ret.run.logs = << <<"5", "0", "%">>, <<"7", " ", "%">> >>
    /\ Len(ret.cbs) = 5
    /\ Reported(ret.cbs) = <<500, 3000, 3050, 6250, 6250>>

\* the extrapolation for a wall time: 0.30 + 0.60 * elapsed / expected total,
\* at most 0.93, the expected total being 1.2 times the hint (30 s when there
\* is none) and at least 8 s; elapsed in tenths of a second
Extrapolated(req, elapsed) ==
    LET hint == IF req.duration_hint_seconds # 0 THEN req.duration_hint_seconds ELSE 30
        total == IF 12 * hint > 80 THEN 12 * hint ELSE 80
        value == 3000 + (6000 * elapsed) \div total
    IN IF value > 9300 THEN 9300 ELSE value

\* C36: an iteration of the external-process runner's loop that meets no
\* percentage, because nothing was written within the polling interval or
\* because the line read holds none, extrapolates: the progress becomes the
\* larger of its value and the extrapolation for the elapsed wall time, and
\* a value that rose is reported for the restoring stage.
C36_ExtrapolatedWithoutSignal ==
    [][ ( /\ ret.op = "run" /\ ret' # ret /\ ret.run.at = 2
          /\ \/ ret'.ev = "timeout"
             \/ ret'.ev = "line" /\ MatchPct(Head(ret.run.out)) < 0 ) =>
            LET guess == Extrapolated(ret.req, ret'.elapsed)
            IN /\ guess <= 9300
               /\ ret'.run.dyn = (IF guess > ret.run.dyn THEN guess ELSE ret.run.dyn)
               /\ ret'.cbs = (IF guess > ret.run.dyn
                              THEN Append(ret.cbs, <<<<"restoring">>, guess>>)
                              ELSE ret.cbs) ]_vars

\* the characters of a text that are not white space
Squeeze(text) == SelectSeq(text, LAMBDA c : ~IsSpace(c))

Stages(cbs) == [i \in 1..Len(cbs) |-> cbs[i][1]]

\* a callback of the stage was made
Emitted(cbs, stage) == \E i \in 1..Len(cbs) : cbs[i][1] = stage

\* C37: when the child has exited with a nonzero code, run raises with the
\* captured output as the message, or the fixed message when nothing but
\* white space was captured, and has emitted neither encoding nor done; when
\* it has exited with code 0, run returns, and encoding(0.97) and done(1.0)
\* are its last two callbacks.
C37_ExitCodeClassified ==
    (ret.op = "run" /\ ret.child.spawned) =>
        LET captured == Squeeze(JoinLines(ret.child.lines))
        IN /\ ret.child.code # 0 =>
                 /\ ret.end # "return"
                 /\ ~Emitted(ret.cbs, <<"encoding">>) /\ ~Emitted(ret.cbs, <<"done">>)
                 /\ ret.run.at = 3 =>
                       /\ ret.end = "raise" /\ ret.error[1] = "RuntimeError"
                       /\ IF captured = <<>>
                          THEN ret.error[2] = <<"lada-cli execution failed">>
                          ELSE /\ Squeeze(ret.error[2]) = captured
                               /\ ~IsSpace(ret.error[2][1])
                               /\ ~IsSpace(ret.error[2][Len(ret.error[2])])
           /\ ret.child.code = 0 =>
                 /\ ret.end # "raise"
                 /\ ret.end = "return" =>
                       /\ Len(ret.cbs) >= 2
                       /\ SubSeq(ret.cbs, Len(ret.cbs) - 1, Len(ret.cbs))
                            = << <<<<"encoding">>, 9700>>, <<<<"done">>, 10000>> >>
                 /\ Emitted(ret.cbs, <<"done">>) => ret.end = "return"

\* the child wrote two lines and exited with code 1; the first was read in
\* the loop, the second after the exit, and run raised with both
C37_Witness ==
    /\ ret.op = "run" /\ ret.end = "raise" /\ ret.child.code = 1
    /\ ret.child.lines = << <<"e">>, <<"5", "0", "%">> >>
    /\ ret.error = <<"RuntimeError", <<"e", "\n", "5", "0", "%">> >>
    /\ Stages(ret.cbs) = << <<"probing">>, <<"restoring">> >>

\* the callbacks the Simulated Runner is to make for a request, in order
SimulatedStages(req) ==
    << <<<<"probing">>, 500>>, <<<<"decoding">>, 1800>>,
       <<<<"detecting", req.detector_model>>, 4000>>,
       <<<<"restoring", req.restorer_model>>, 7800>> >>
    \o (IF req.refiner_model \notin {NoneVal, ""}
        THEN << <<<<"refining", req.refiner_model>>, 9000>> >> ELSE <<>>)
    \o << <<<<"encoding">>, 9600>>, <<<<"muxing">>, 10000>> >>

\* C38: the Simulated Runner's callbacks are, in this order and once each,
\* probing(0.05), decoding(0.18), detecting(0.40), restoring(0.78),
\* refining(0.90) exactly when the request has a refiner model,
\* encoding(0.96), muxing(1.0); the progress strictly increases and the call
\* returns right after muxing at 1.0.
C38_SimulatedStages ==
    ret.op = "dry-run" =>
        LET expected == SimulatedStages(ret.req)
            n == Len(ret.cbs)
        IN /\ n <= Len(expected) /\ ret.cbs = SubSeq(expected, 1, n)
           /\ \A i \in 1..(n - 1) : ret.cbs[i][2] < ret.cbs[i + 1][2]
           /\ \A i, k \in 1..n : ret.cbs[i][1] = ret.cbs[k][1] => i = k
           /\ Emitted(ret.cbs, <<"refining", ret.req.refiner_model>>)
                 => ret.req.refiner_model \notin {NoneVal, ""}
           /\ (ret.end = "return") = (ret.cbs = expected)
           /\ ret.end = "return" => ret.cbs[n] = <<<<"muxing">>, 10000>>
           /\ ret.end # "raise"

\* a call with a refiner has returned after seven callbacks
C38_Witness ==
    /\ ret.op = "dry-run" /\ ret.end = "return"
    /\ ret.req.refiner_model = "my-refiner"
    /\ Len(ret.cbs) = 7 /\ ret.cbs[5] = <<<<"refining", "my-refiner">>, 9000>>

\* the flag of an option key: two dashes, then the key with a dash for each
\* underscore
IsFlagOf(flag, key) ==
    /\ Len(flag) = Len(key) + 2 /\ flag[1] = "-" /\ flag[2] = "-"
    /\ \A c \in 1..Len(key) : flag[c + 2] = (IF key[c] = "_" THEN "-" ELSE key[c])

\* the text is the decimal form of the integer
IsDecimalOf(text, n) ==
    LET digits == IF n < 0 THEN Tail(text) ELSE text
    IN /\ text # <<>> /\ digits # <<>>
       /\ n < 0 => text[1] = "-"
       /\ \A c \in 1..Len(digits) : IsDigit(digits[c])
       /\ Len(digits) > 1 => digits[1] # "0"
       /\ NumVal(digits) = (IF n < 0 THEN 0 - n ELSE n)

\* the number of arguments an option contributes
GroupLen(value) == IF value[1] = "bool" THEN (IF value[2] THEN 1 ELSE 0) ELSE 2

RECURSIVE GroupsLen(_, _)
GroupsLen(options, n) ==
    IF n = 0 THEN 0 ELSE GroupsLen(options, n - 1) + GroupLen(options[n][2])

IdSet(model) == model # <<"None">> /\ model # <<>>

\* C39: the argument vector is the executable, --input and the input path,
\* --output and the output path, --mosaic-detection-model and
\* --mosaic-restoration-model each with its id when the id is set, then one
\* group per option in the map's order: nothing for false, the flag for
\* true, the flag and the value's text otherwise, the flag being the key
\* with dashes for underscores.
C39_ArgumentVector ==
    ret.op = "command" =>
        LET cmd == ret.command
            d == IF IdSet(ret.detector_model) THEN 2 ELSE 0
            r == IF IdSet(ret.restorer_model) THEN 2 ELSE 0
            at == 5 + d + r
            opts == ret.options
        IN /\ Len(cmd) = at + GroupsLen(opts, Len(opts))
           /\ SubSeq(cmd, 1, 5) =
                 << <<"l", "a", "d", "a", "-", "c", "l", "i">>,
                    <<"-", "-", "i", "n", "p", "u", "t">>, <<"i", "n">>,
                    <<"-", "-", "o", "u", "t", "p", "u", "t">>, <<"o", "u", "t">> >>
           /\ d = 2 =>
                 /\ IsFlagOf(cmd[6], <<"m", "o", "s", "a", "i", "c", "_", "d", "e", "t", "e", "c", "t", "i", "o", "n", "_", "m", "o", "d", "e", "l">>)
                 /\ cmd[7] = ret.detector_model
           /\ r = 2 =>
                 /\ IsFlagOf(cmd[6 + d], <<"m", "o", "s", "a", "i", "c", "_", "r", "e", "s", "t", "o", "r", "a", "t", "i", "o", "n", "_", "m", "o", "d", "e", "l">>)
                 /\ cmd[7 + d] = ret.restorer_model
           /\ \A i \in 1..Len(opts) :
                 LET key == opts[i][1]
                     value == opts[i][2]
                     first == at + GroupsLen(opts, i - 1) + 1
                 IN /\ GroupLen(value) >= 1 => IsFlagOf(cmd[first], key)
                    /\ value[1] = "str" => cmd[first + 1] = value[2]
                    /\ value[1] = "int" => IsDecimalOf(cmd[first + 1], value[2])

\* both ids set, a false option before an integer one with underscores in
\* its key: the vector ends with --max-clip-len 180 and has no --dry-run
C39_Witness ==
    /\ ret.op = "command"
    /\ IdSet(ret.detector_model) /\ IdSet(ret.restorer_model)
    /\ Len(ret.options) = 2
    /\ ret.options[1][2] = <<"bool", FALSE>> /\ ret.options[2][2] = <<"int", 180>>
    /\ Len(ret.command) = 11
    /\ ret.command[10] = <<"-", "-", "m", "a", "x", "-", "c", "l", "i", "p", "-", "l", "e", "n">>
    /\ ret.command[11] = <<"1", "8", "0">>

\* C40: a progress callback gets the progress clamped to [0, 1] and a
\* positive elapsed time t; fps is given exactly when the frame count is
\* known and nonzero and p > 0, and is then frame_count * p / t; eta is given
\* exactly when p > 0, and is then t * (1 - p) / p, so 0 at p = 1; without a
\* frame count fps is null.
C40_ProgressEstimator ==
    (ret.op = "_handle_stage" /\ ret.on_progress) =>
        /\ Len(ret.args) = 1
        /\ LET a == ret.args[1]
               frames == ret.total_frames
               p == a.progress
               t == a.elapsed
           IN /\ p = (IF ret.input < 0 THEN 0 ELSE IF ret.input > 100 THEN 100 ELSE ret.input)
              /\ t > 0 /\ (ret.clock > 0 => t = ret.clock)
              /\ (a.fps # <<>>) = (frames # <<>> /\ frames[1] # 0 /\ p > 0)
              /\ a.fps # <<>> =>
                    \* num / den = frames * (p / 100) / (t / 1000)
                    a.fps[1][1] * t = frames[1] * p * 10 * a.fps[1][2]
              /\ (a.eta # <<>>) = (p > 0)
              /\ a.eta # <<>> =>
                    \* num / den = t * (1 - p / 100) / (p / 100)
                    /\ a.eta[1][1] * p = t * (100 - p) * a.eta[1][2]
                    /\ p = 100 => a.eta[1][1] = 0
              /\ frames = <<>> => a.fps = <<>>

\* a callback at progress 0.78 after 3 s with 240 frames known: fps is
\* 240 * 0.78 / 3 = 62.4 and eta is given
C40_Witness ==
    /\ ret.op = "_handle_stage" /\ ret.on_progress
    /\ ret.total_frames = <<240>> /\ ret.input = 78 /\ ret.clock = 3000
    /\ ret.args[1].fps # <<>> /\ ret.args[1].eta # <<>>
    /\ ret.args[1].fps[1][1] * 10 = 624 * ret.args[1].fps[1][2]

====
